---- MODULE Spec2Model ----
(***************************************************************************)
(* Model of the realtime channel manager (PulseService) of the StreamMint  *)
(* client: one manager object, the WebSockets it creates, the calls made   *)
(* on it and the events the transport delivers to the socket handlers.     *)
(*                                                                         *)
(* JavaScript runs one task at a time.  A call or a socket handler runs to *)
(* its first await as one step; the part of emit() after its await is a    *)
(* continuation that runs as a microtask, before the transport can deliver *)
(* another event.                                                          *)
(***************************************************************************)
EXTENDS Integers, Sequences, FiniteSets, TLC

\* ------------------------------------------------------------------ bounds
MaxSockets == 2      \* WebSockets ever created by the manager
MaxPending == 2      \* emit() calls waiting at their await at the same time
MaxListeners == 2    \* registrations held in the listener set at once
MaxReconnectAttempts == 2   \* the maxReconnectAttempts option given to StreamClient
MaxCalls == 1        \* domain-service calls that have not settled yet
MaxText == 2         \* code units of a secretID
MaxRest == 2         \* code units of a URL after its scheme

\* ------------------------------------------------------------- value sets
Null == 0                       \* null socket reference / null promise
NoUser == "undefined"           \* this.userId before any connect(userId)
Users == {"u1"}
clientID == "test-client-id-123"  \* uuid() drawn once in the constructor
Peers == {"other-client"}
Events == {"typing", "message_create"}    \* event names of listeners and inbound frames
EmitEvents == {"typing"}                  \* event names passed to emit()
Fns == {"h1", "hThrow"}         \* handler functions; hThrow always throws
Datas == {{<<"message", "hello">>}}       \* maps as sets of <<key, value>>
InData == {<<"id", "m1">>}

VARIABLES
    ws,                 \* this.ws: socket id or Null
    connectionPromise,  \* this.connectionPromise: promise id or Null
    userId,             \* this.userId
    listeners,          \* this.listeners, in insertion order
    sockets,            \* every WebSocket created so far, by id, with the promise
                        \* its handlers settle
    pending,            \* the emit() calls that have not yet run past their await
    lastCall,           \* what the connect()/emit() call of the step just taken did
    lastEmit,           \* what the emit() continuation run in the step just taken did
    lastMsg,            \* what ws.onmessage did in the step just taken
                        \* (each of the last three is its None value when the step
                        \* just taken was of another kind)
    client,             \* the StreamClient that owns the manager as its `pulse`
    lastClient,         \* what the StreamClient did in the step just taken
    calls,              \* the domain-service calls that have not settled yet
    channelID,          \* ChannelService.channelID
    lastService,        \* what the domain services did in the step just taken
    fn,                 \* the function of the gateway applied last: its arguments
                        \* and, once applied, its result
    manager             \* the fields the PulseService constructor assigns:
                        \* clientID, token and uri

vars == <<ws, connectionPromise, userId, listeners, sockets, pending,
          lastCall, lastEmit, lastMsg, client, lastClient,
          calls, channelID, lastService, fn, manager>>

\* the fields of the StreamClient; no action of the manager touches them
clientVars == <<client, lastClient>>

\* the fields of the domain services; no action of the manager or of the
\* StreamClient touches them
serviceVars == <<calls, channelID, lastService>>

\* what a step of the manager used on its own leaves alone
gatewayVars == <<fn, manager>>

outerVars == <<clientVars, serviceVars, gatewayVars>>

\* ------------------------------------------------------------ inbound frames
\* the text of an inbound frame: not JSON at all, the JSON text null, or the
\* JSON text of an envelope object
Envelopes ==
    [ event_type : Events, data : {InData}, sender_id : Peers \cup {clientID} ]

Garbage == [form |-> "invalid json", event_type |-> "", data |-> {}, sender_id |-> ""]

JsonNull == [form |-> "null", event_type |-> "", data |-> {}, sender_id |-> ""]

Stringify(env) ==
    [form |-> "object", event_type |-> env.event_type, data |-> env.data,
     sender_id |-> env.sender_id]

Frames == {Garbage, JsonNull} \cup {Stringify(env) : env \in Envelopes}

\* JSON.parse: throws SyntaxError on text that is not JSON
JSONparse(text) ==
    IF text.form = "invalid json"
    THEN [threw |-> TRUE, isNull |-> FALSE, value |-> [event_type |-> "", data |-> {}, sender_id |-> ""]]
    ELSE IF text.form = "null"
    THEN [threw |-> FALSE, isNull |-> TRUE, value |-> [event_type |-> "", data |-> {}, sender_id |-> ""]]
    ELSE [threw |-> FALSE, isNull |-> FALSE,
          value |-> [event_type |-> text.event_type, data |-> text.data,
                     sender_id |-> text.sender_id]]

\* onEvent registers the handler itself
Wrap_Identity(handler) == handler

\* (event) => handler(event as any): a function made by onEvent, or by a
\* StreamClient.onXxx, around the handler it is given; the caller holds no
\* reference to it, and it does what the handler does
Wrap(handler) == IF handler = "h1" THEN "(event) => h1(event)" ELSE "(event) => hThrow(event)"

Throws(f) == f = "hThrow" \/ f = "(event) => hThrow(event)"

\* this.listeners.forEach(...): listeners are visited in insertion order, a
\* matching one is called with the message, and the first handler that throws
\* ends the iteration
RECURSIVE forEach(_, _, _)
forEach(ls, message, done) ==
    IF ls = <<>>
    THEN [invoked |-> done, threw |-> FALSE]
    ELSE IF Head(ls).event = message.event_type
    THEN IF Throws(Head(ls).fn)
         THEN [invoked |-> Append(done, [fn |-> Head(ls).fn, arg |-> message]), threw |-> TRUE]
         ELSE forEach(Tail(ls), message, Append(done, [fn |-> Head(ls).fn, arg |-> message]))
    ELSE forEach(Tail(ls), message, done)

\* onmessage with the sender_id comparison left out
onmessage_NoSelfCheck(text, ls) ==
    LET parsed == JSONparse(text) IN
    IF parsed.threw \/ parsed.isNull
    THEN [invoked |-> <<>>, logged |-> TRUE, escaped |-> FALSE]
    ELSE LET r == forEach(ls, parsed.value, <<>>) IN
         [invoked |-> r.invoked, logged |-> r.threw, escaped |-> FALSE]

\* onmessage with JSON.parse outside the try block
onmessage_NoCatch(text, ls) ==
    LET parsed == JSONparse(text) IN
    IF parsed.threw
    THEN [invoked |-> <<>>, logged |-> FALSE, escaped |-> TRUE]
    ELSE IF parsed.isNull
    THEN [invoked |-> <<>>, logged |-> TRUE, escaped |-> FALSE]
    ELSE IF parsed.value.sender_id = manager.clientID
    THEN [invoked |-> <<>>, logged |-> FALSE, escaped |-> FALSE]
    ELSE LET r == forEach(ls, parsed.value, <<>>) IN
         [invoked |-> r.invoked, logged |-> r.threw, escaped |-> FALSE]

\* ws.onmessage: invoked = the handler calls made, logged = console.error was
\* called, escaped = an exception left the handler
onmessage(text, ls) ==
    LET parsed == JSONparse(text) IN
    IF parsed.threw \/ parsed.isNull           \* SyntaxError, or TypeError on null.sender_id
    THEN [invoked |-> <<>>, logged |-> TRUE, escaped |-> FALSE]
    ELSE IF parsed.value.sender_id = manager.clientID
    THEN [invoked |-> <<>>, logged |-> FALSE, escaped |-> FALSE]
    ELSE LET r == forEach(ls, parsed.value, <<>>) IN
         [invoked |-> r.invoked, logged |-> r.threw, escaped |-> FALSE]

\* the registrations whose event is the event_type written in the frame
Registered(text, ls) == SelectSeq(ls, LAMBDA l : l.event = text.event_type)

NoMsg == [text |-> [form |-> "none", event_type |-> "", data |-> {}, sender_id |-> ""],
          invoked |-> <<>>, logged |-> FALSE, escaped |-> FALSE]

\* ------------------------------------------------------- WebSocket objects
\* new WebSocket(...) with a URI made for the socket
NewSocket_UriPerSocket ==
    [readyState |-> "CONNECTING", closeFired |-> FALSE, promise |-> "pending",
     url |-> Append(manager.uri, Len(sockets) + 1)]

\* new WebSocket(this.uri)
NewSocket ==
    [readyState |-> "CONNECTING", closeFired |-> FALSE, promise |-> "pending",
     url |-> manager.uri]

SocketIds == 1..Len(sockets)

\* PulseService.isConnected: this.ws?.readyState === WebSocket.OPEN
IsOpen(w, socks) == w # Null /\ socks[w].readyState = "OPEN"

isConnected == IsOpen(ws, sockets)

\* resolve() / reject() settle a promise once; later calls have no effect
Settle(s, outcome) ==
    IF sockets[s].promise = "pending" THEN outcome ELSE sockets[s].promise

\* --------------------------------------------------------------- microtasks
\* an emit() continuation is runnable once the promise it awaits has settled
Runnable(i) ==
    IF pending[i].awaits = Null
    THEN TRUE
    ELSE sockets[pending[i].awaits].promise # "pending"

\* the transport delivers an event only when no microtask is queued
MicrotasksDrained == \A i \in 1..Len(pending) : ~Runnable(i)

\* op = the method called, created = the socket it created, awaits = the promise
\* it returned or waits for (Null: already resolved), error = the exception it
\* raised at once, wasOpen / userBefore = isConnected / userId when it was called,
\* removed = the registrations an off() deleted
NoCall == [op |-> "none", created |-> Null, awaits |-> Null, error |-> "none",
           wasOpen |-> FALSE, userBefore |-> NoUser, removed |-> 0]

NoEmit == [outcome |-> "none", error |-> "", awaited |-> Null, socket |-> Null,
           frame |-> [event_type |-> "", data |-> {}, sender_id |-> ""]]

\* remove the i-th element of a sequence
Remove(q, i) == SubSeq(q, 1, i - 1) \o SubSeq(q, i + 1, Len(q))

\* ------------------------------------------------------ connect(userId)
\* PulseService.connect: stores the user id, creates a WebSocket, installs the
\* four handlers and returns the promise they settle.  It neither looks at the
\* current socket nor at connectionPromise.
connect(u) ==
    /\ Len(sockets) < MaxSockets
    /\ userId' = u
    /\ sockets' = Append(sockets, NewSocket)
    /\ ws' = Len(sockets) + 1
    /\ lastCall' = [op |-> "connect", created |-> Len(sockets) + 1,
                    awaits |-> Len(sockets) + 1, error |-> "none",
                    wasOpen |-> isConnected, userBefore |-> userId, removed |-> 0]
    /\ lastEmit' = NoEmit
    /\ lastMsg' = NoMsg
    /\ UNCHANGED <<connectionPromise, listeners, pending>>

\* ------------------------------------ emit(event, data), up to its await
\* PulseService.emit calls ensureConnection(this.userId!) and awaits it.
\* ensureConnection: open socket -> resolved promise; pending marker -> that
\* promise; otherwise connectionPromise = connect(userId).
emitOpen(e, d) ==
    /\ isConnected
    /\ pending' = Append(pending, [awaits |-> Null, event |-> e, data |-> d])
    /\ lastCall' = [op |-> "emit", created |-> Null, awaits |-> Null, error |-> "none",
                    wasOpen |-> TRUE, userBefore |-> userId, removed |-> 0]
    /\ UNCHANGED <<ws, connectionPromise, userId, sockets>>

emitShared(e, d) ==
    /\ ~isConnected
    /\ connectionPromise # Null
    /\ pending' = Append(pending, [awaits |-> connectionPromise, event |-> e, data |-> d])
    /\ lastCall' = [op |-> "emit", created |-> Null, awaits |-> connectionPromise,
                    error |-> "none", wasOpen |-> FALSE, userBefore |-> userId,
                    removed |-> 0]
    /\ UNCHANGED <<ws, connectionPromise, userId, sockets>>

emitConnect(e, d) ==
    /\ ~isConnected
    /\ connectionPromise = Null
    /\ Len(sockets) < MaxSockets
    /\ userId' = userId                      \* connect(this.userId)
    /\ sockets' = Append(sockets, NewSocket)
    /\ ws' = Len(sockets) + 1
    /\ connectionPromise' = Len(sockets) + 1
    /\ pending' = Append(pending, [awaits |-> Len(sockets) + 1, event |-> e, data |-> d])
    /\ lastCall' = [op |-> "emit", created |-> Len(sockets) + 1,
                    awaits |-> Len(sockets) + 1, error |-> "none",
                    wasOpen |-> FALSE, userBefore |-> userId, removed |-> 0]

emit(e, d) ==
    /\ Len(pending) < MaxPending
    /\ (emitOpen(e, d) \/ emitShared(e, d) \/ emitConnect(e, d))
    /\ lastEmit' = NoEmit
    /\ lastMsg' = NoMsg
    /\ UNCHANGED listeners

\* { userId: this.userId, ...data }: a userId key of the caller wins
WithUser_CallerWins(d, u) ==
    IF \E p \in d : p[1] = "userId" THEN d ELSE d \cup {<<"userId", u>>}

\* { ...data, userId: this.userId }
WithUser(d, u) == {p \in d : p[1] # "userId"} \cup {<<"userId", u>>}

Payload(e, d) ==
    [ event_type |-> e,
      data       |-> IF userId # NoUser THEN WithUser(d, userId) ELSE d,
      sender_id  |-> manager.clientID ]

\* --------------------------------------- emit(event, data), after its await
\* a rejected connection promise rejects emit(); otherwise the payload is built
\* and handed to this.ws!.send: a null ws raises TypeError, send() on a socket
\* still CONNECTING raises InvalidStateError, send() on a CLOSING or CLOSED
\* socket returns without transmitting.  lastEmit: awaited = the promise the
\* call waited for, socket = this.ws at the send.
emitResume(i) ==
    /\ i \in 1..Len(pending)
    /\ Runnable(i)
    /\ LET a == pending[i].awaits
           frame == Payload(pending[i].event, pending[i].data)
           rejected(err) == [outcome |-> "rejected", error |-> err, awaited |-> a,
                             socket |-> ws, frame |-> NoEmit.frame]
       IN lastEmit' =
            IF a # Null /\ sockets[a].promise = "rejected" THEN rejected("socket error")
            ELSE IF ws = Null THEN rejected("TypeError")
            ELSE IF sockets[ws].readyState = "CONNECTING" THEN rejected("InvalidStateError")
            ELSE IF sockets[ws].readyState = "OPEN"
            THEN [outcome |-> "sent", error |-> "", awaited |-> a, socket |-> ws,
                  frame |-> frame]
            ELSE [outcome |-> "dropped", error |-> "", awaited |-> a, socket |-> ws,
                  frame |-> frame]
    /\ pending' = Remove(pending, i)
    /\ lastCall' = NoCall
    /\ lastMsg' = NoMsg
    /\ UNCHANGED <<ws, connectionPromise, userId, listeners, sockets>>

\* --------------------------------------------------------------- disconnect
\* disconnect() that closes the socket but keeps the reference to it
disconnect_KeepsSocket ==
    /\ IF ws # Null
       THEN sockets' = [sockets EXCEPT ![ws].readyState =
                          IF @ \in {"CONNECTING", "OPEN"} THEN "CLOSING" ELSE @]
       ELSE sockets' = sockets
    /\ connectionPromise' = Null
    /\ lastCall' = NoCall
    /\ lastEmit' = NoEmit
    /\ lastMsg' = NoMsg
    /\ UNCHANGED <<ws, userId, listeners, pending>>

disconnect ==
    /\ IF ws # Null
       THEN sockets' = [sockets EXCEPT ![ws].readyState =
                          IF @ \in {"CONNECTING", "OPEN"} THEN "CLOSING" ELSE @]
       ELSE sockets' = sockets
    /\ ws' = Null
    /\ connectionPromise' = Null
    /\ lastCall' = NoCall
    /\ lastEmit' = NoEmit
    /\ lastMsg' = NoMsg
    /\ UNCHANGED <<userId, listeners, pending>>

\* ------------------------------------------------------------------ on / off
on(e, f) ==
    /\ Len(listeners) < MaxListeners
    /\ listeners' = Append(listeners, [event |-> e, fn |-> f])
    /\ lastCall' = [NoCall EXCEPT !.op = "on"]
    /\ lastEmit' = NoEmit
    /\ lastMsg' = NoMsg
    /\ UNCHANGED <<ws, connectionPromise, userId, sockets, pending>>

\* PulseService.onEvent: this.on(eventType, (event) => handler(event as any))
onEvent(eventType, handler) == on(eventType, Wrap(handler))

\* a comparison of the handler alone
Keep_FnOnly(e, f, l) == l.fn # f

\* a comparison of the event alone
Keep_EventOnly(e, f, l) == l.event # e

Keep(e, f, l) == ~(l.event = e /\ l.fn = f)

off(e, f) ==
    /\ listeners' = SelectSeq(listeners, LAMBDA l : Keep(e, f, l))
    /\ lastCall' = [NoCall EXCEPT !.op = "off",
                                  !.removed = Len(listeners) - Len(listeners')]
    /\ lastEmit' = NoEmit
    /\ lastMsg' = NoMsg
    /\ UNCHANGED <<ws, connectionPromise, userId, sockets, pending>>

\* ---------------------------------------------------------- transport events
\* the socket opens: ws.onopen
TransportOpen(s) ==
    /\ s \in SocketIds
    /\ MicrotasksDrained
    /\ sockets[s].readyState = "CONNECTING"
    /\ sockets' = [sockets EXCEPT ![s].readyState = "OPEN",
                                  ![s].promise = Settle(s, "resolved")]
    /\ connectionPromise' = Null
    /\ lastCall' = NoCall
    /\ lastEmit' = NoEmit
    /\ lastMsg' = NoMsg
    /\ UNCHANGED <<ws, userId, listeners, pending>>

\* onerror that rejects but leaves connectionPromise as it is
TransportError_KeepsMarker(s) ==
    /\ s \in SocketIds
    /\ MicrotasksDrained
    /\ sockets[s].readyState \in {"CONNECTING", "OPEN", "CLOSING"}
    /\ sockets' = [sockets EXCEPT ![s].readyState = "CLOSED",
                                  ![s].promise = Settle(s, "rejected")]
    /\ lastCall' = NoCall
    /\ lastEmit' = NoEmit
    /\ lastMsg' = NoMsg
    /\ UNCHANGED <<ws, connectionPromise, userId, listeners, pending>>

\* the connection fails: the socket is CLOSED, ws.onerror runs, and the close
\* event follows
TransportError(s) ==
    /\ s \in SocketIds
    /\ MicrotasksDrained
    /\ sockets[s].readyState \in {"CONNECTING", "OPEN", "CLOSING"}
    /\ sockets' = [sockets EXCEPT ![s].readyState = "CLOSED",
                                  ![s].promise = Settle(s, "rejected")]
    /\ connectionPromise' = Null
    /\ lastCall' = NoCall
    /\ lastEmit' = NoEmit
    /\ lastMsg' = NoMsg
    /\ UNCHANGED <<ws, userId, listeners, pending>>

\* onclose that forgets the socket only when it is the one the manager holds
TransportClose_OwnSocketOnly(s) ==
    /\ s \in SocketIds
    /\ MicrotasksDrained
    /\ sockets[s].readyState \in {"OPEN", "CLOSING", "CLOSED"}
    /\ ~sockets[s].closeFired
    /\ sockets' = [sockets EXCEPT ![s].readyState = "CLOSED", ![s].closeFired = TRUE]
    /\ ws' = IF ws = s THEN Null ELSE ws
    /\ connectionPromise' = Null
    /\ lastCall' = NoCall
    /\ lastEmit' = NoEmit
    /\ lastMsg' = NoMsg
    /\ UNCHANGED <<userId, listeners, pending>>

\* onclose that opens a new socket by itself
TransportClose_Reconnects(s) ==
    /\ s \in SocketIds
    /\ MicrotasksDrained
    /\ sockets[s].readyState \in {"OPEN", "CLOSING", "CLOSED"}
    /\ ~sockets[s].closeFired
    /\ IF Len(sockets) < MaxSockets
       THEN /\ sockets' = Append([sockets EXCEPT ![s].readyState = "CLOSED",
                                                 ![s].closeFired = TRUE], NewSocket)
            /\ ws' = Len(sockets) + 1
       ELSE /\ sockets' = [sockets EXCEPT ![s].readyState = "CLOSED",
                                          ![s].closeFired = TRUE]
            /\ ws' = Null
    /\ connectionPromise' = Null
    /\ lastCall' = NoCall
    /\ lastEmit' = NoEmit
    /\ lastMsg' = NoMsg
    /\ UNCHANGED <<userId, listeners, pending>>

\* onclose that also rejects the promise of its connect()
TransportClose_Rejects(s) ==
    /\ s \in SocketIds
    /\ MicrotasksDrained
    /\ sockets[s].readyState \in {"OPEN", "CLOSING", "CLOSED"}
    /\ ~sockets[s].closeFired
    /\ sockets' = [sockets EXCEPT ![s].readyState = "CLOSED", ![s].closeFired = TRUE,
                                  ![s].promise = Settle(s, "rejected")]
    /\ ws' = Null
    /\ connectionPromise' = Null
    /\ lastCall' = NoCall
    /\ lastEmit' = NoEmit
    /\ lastMsg' = NoMsg
    /\ UNCHANGED <<userId, listeners, pending>>

\* the close event of a socket (remote close, end of the closing handshake
\* started by close(), or after an error): ws.onclose
TransportClose(s) ==
    /\ s \in SocketIds
    /\ MicrotasksDrained
    /\ sockets[s].readyState \in {"OPEN", "CLOSING", "CLOSED"}
    /\ ~sockets[s].closeFired
    /\ sockets' = [sockets EXCEPT ![s].readyState = "CLOSED", ![s].closeFired = TRUE]
    /\ ws' = Null
    /\ connectionPromise' = Null
    /\ lastCall' = NoCall
    /\ lastEmit' = NoEmit
    /\ lastMsg' = NoMsg
    /\ UNCHANGED <<userId, listeners, pending>>

\* a frame arrives on an open socket: ws.onmessage
TransportMessage(s, text) ==
    /\ s \in SocketIds
    /\ MicrotasksDrained
    /\ sockets[s].readyState = "OPEN"
    /\ LET r == onmessage(text, listeners) IN
       lastMsg' = [text |-> text, invoked |-> r.invoked, logged |-> r.logged,
                   escaped |-> r.escaped]
    /\ lastCall' = NoCall
    /\ lastEmit' = NoEmit
    /\ UNCHANGED <<ws, connectionPromise, userId, listeners, sockets, pending>>

\* ------------------------------------------------------------ StreamClient
\* new StreamClient({...}) has not run yet
NoClient ==
    [constructed |-> FALSE, autoConnect |-> FALSE, userId |-> NoUser, isReady |-> FALSE,
     maxReconnectAttempts |-> 0, timers |-> 0, waiting |-> <<>>]

\* op = the StreamClient operation of the step, threw = the error its connect()
\* was rejected with at once, socket = the socket the step had the manager
\* create, emitted = the events the StreamClient emitted, scheduled = the
\* setTimeout calls made
NoClientStep ==
    [op |-> "none", threw |-> "none", socket |-> Null, emitted |-> <<>>, scheduled |-> 0]

\* a StreamClient.connect() call is at its await; its continuation is runnable
\* once the promise of pulse.connect() has settled
ClientRunnable(i) == sockets[client.waiting[i]].promise # "pending"

ClientDrained == \A i \in 1..Len(client.waiting) : ~ClientRunnable(i)

\* a step of the StreamClient that does not enter the manager
ManagerIdle ==
    /\ lastCall' = NoCall
    /\ lastEmit' = NoEmit
    /\ lastMsg' = NoMsg
    /\ UNCHANGED <<ws, connectionPromise, userId, listeners, sockets, pending>>

\* a connect() without the check of the user id: pulse.connect(undefined)
StreamClient_connect_call_Unchecked(c, op) ==
    /\ connect(c.userId)
    /\ client' = [c EXCEPT !.waiting = Append(@, Len(sockets) + 1)]
    /\ lastClient' = [NoClientStep EXCEPT !.op = op, !.socket = Len(sockets) + 1]

\* StreamClient.connect up to its await, run by StreamClient c: without a user
\* id it throws before the try block; otherwise it calls pulse.connect(userId)
\* and waits for the promise
StreamClient_connect_call(c, op) ==
    IF c.userId = NoUser
    THEN /\ client' = c
         /\ lastClient' = [NoClientStep EXCEPT !.op = op,
                               !.threw = "User ID must be set before connecting"]
         /\ ManagerIdle
    ELSE /\ connect(c.userId)
         /\ client' = [c EXCEPT !.waiting = Append(@, Len(sockets) + 1)]
         /\ lastClient' = [NoClientStep EXCEPT !.op = op, !.socket = Len(sockets) + 1]

\* new StreamClient({autoConnect, maxReconnectAttempts}): the fields are set,
\* the services are built, and with autoConnect this.connect() is called and
\* its rejection ignored
StreamClient_options(autoConnect, maxReconnectAttempts) ==
    /\ ~client.constructed
    /\ LET c == [constructed |-> TRUE, autoConnect |-> autoConnect, userId |-> NoUser,
                 isReady |-> FALSE, maxReconnectAttempts |-> maxReconnectAttempts,
                 timers |-> 0, waiting |-> <<>>]
       IN IF autoConnect
          THEN StreamClient_connect_call(c, "constructor")
          ELSE /\ client' = c
               /\ lastClient' = [NoClientStep EXCEPT !.op = "constructor"]
               /\ ManagerIdle

\* the same with maxReconnectAttempts: MaxReconnectAttempts
StreamClient_constructor(autoConnect) ==
    StreamClient_options(autoConnect, MaxReconnectAttempts)

\* StreamClient.onTyping: this.pulse.on("typing", (args) => handler(args))
StreamClient_onTyping(handler) ==
    /\ client.constructed
    /\ on("typing", Wrap(handler))
    /\ lastClient' = [NoClientStep EXCEPT !.op = "onTyping"]
    /\ client' = client

\* StreamClient.onMessageCreate: this.pulse.onEvent("message_create", handler)
StreamClient_onMessageCreate(handler) ==
    /\ client.constructed
    /\ onEvent("message_create", handler)
    /\ lastClient' = [NoClientStep EXCEPT !.op = "onMessageCreate"]
    /\ client' = client

\* StreamClient.login
StreamClient_login(u) ==
    /\ client.constructed
    /\ client' = [client EXCEPT !.userId = u]
    /\ lastClient' = [NoClientStep EXCEPT !.op = "login"]
    /\ ManagerIdle

\* StreamClient.connect called by the application
StreamClient_connect ==
    /\ client.constructed
    /\ StreamClient_connect_call(client, "connect")

\* the callback of setTimeout(() => this.connect(), this.reconnectInterval)
reconnectTimer ==
    /\ client.timers > 0
    /\ ClientDrained
    /\ MicrotasksDrained
    /\ StreamClient_connect_call([client EXCEPT !.timers = @ - 1], "timer")

\* the catch block of StreamClient.connect that never counts the failure
StreamClient_connect_catch_NoDecrement(c) ==
    IF c.autoConnect
    THEN [client |-> [c EXCEPT !.isReady = FALSE, !.timers = @ + 1],
          emitted |-> <<"error">>, scheduled |-> 1]
    ELSE [client |-> [c EXCEPT !.isReady = FALSE],
          emitted |-> <<"error">>, scheduled |-> 0]

\* the catch block of StreamClient.connect that retries while the counter is
\* not negative
StreamClient_connect_catch_RetriesAtZero(c) ==
    IF c.autoConnect
    THEN IF c.maxReconnectAttempts - 1 >= 0
         THEN [client |-> [c EXCEPT !.isReady = FALSE, !.maxReconnectAttempts = @ - 1,
                                    !.timers = @ + 1],
               emitted |-> <<"error">>, scheduled |-> 1]
         ELSE [client |-> [c EXCEPT !.isReady = FALSE, !.maxReconnectAttempts = @ - 1],
               emitted |-> <<"error", "maxReconnectAttemptsReached">>, scheduled |-> 0]
    ELSE [client |-> [c EXCEPT !.isReady = FALSE],
          emitted |-> <<"error">>, scheduled |-> 0]

\* the catch block of StreamClient.connect
StreamClient_connect_catch(c) ==
    IF c.autoConnect
    THEN IF c.maxReconnectAttempts - 1 > 0
         THEN [client |-> [c EXCEPT !.isReady = FALSE, !.maxReconnectAttempts = @ - 1,
                                    !.timers = @ + 1],
               emitted |-> <<"error">>, scheduled |-> 1]
         ELSE [client |-> [c EXCEPT !.isReady = FALSE, !.maxReconnectAttempts = @ - 1],
               emitted |-> <<"error", "maxReconnectAttemptsReached">>, scheduled |-> 0]
    ELSE [client |-> [c EXCEPT !.isReady = FALSE],      \* console.error
          emitted |-> <<"error">>, scheduled |-> 0]

\* StreamClient.connect after its await: 'ready' when pulse.connect() resolved,
\* the catch block when it was rejected
StreamClient_connect_resume(i) ==
    /\ i \in 1..Len(client.waiting)
    /\ ClientRunnable(i)
    /\ LET c == [client EXCEPT !.waiting = Remove(@, i)]
           r == StreamClient_connect_catch(c)
       IN IF sockets[client.waiting[i]].promise = "resolved"
          THEN /\ client' = [c EXCEPT !.isReady = TRUE]
               /\ lastClient' = [NoClientStep EXCEPT !.op = "resolved",
                                     !.socket = client.waiting[i],
                                     !.emitted = <<"ready">>]
          ELSE /\ client' = r.client
               /\ lastClient' = [NoClientStep EXCEPT !.op = "rejected",
                                     !.socket = client.waiting[i],
                                     !.emitted = r.emitted,
                                     !.scheduled = r.scheduled]
    /\ ManagerIdle

\* StreamClient.disconnect
StreamClient_disconnect ==
    /\ client.constructed
    /\ disconnect
    /\ client' = [client EXCEPT !.isReady = FALSE]
    /\ lastClient' = [NoClientStep EXCEPT !.op = "disconnect",
                          !.emitted = <<"connection:close">>]

\* an event of the transport while a StreamClient exists: it is delivered when
\* no continuation of the StreamClient is waiting to run
ClientTransportOpen(s) ==
    ClientDrained /\ TransportOpen(s) /\ client' = client /\ lastClient' = NoClientStep

ClientTransportError(s) ==
    ClientDrained /\ TransportError(s) /\ client' = client /\ lastClient' = NoClientStep

ClientTransportClose(s) ==
    ClientDrained /\ TransportClose(s) /\ client' = client /\ lastClient' = NoClientStep

\* --------------------------------------------------------- domain services
\* MessageService, UserService and FileService: every method sends one HTTP
\* request through the gateway and awaits the response; a mutation then awaits
\* this.pulse.emit(...) when the service was given a manager
Mutations ==
    {"createMessage", "updateMessage", "deleteMessage",
     "createUser", "updateUser", "deleteUser",
     "uploadFile", "uploadChannelFile", "deleteFile"}

Queries ==
    {"getMessages", "getMessagesAfter", "getMessagesBefore", "searchMessages",
     "getUsers", "getUserByID", "getUserByExternalID", "getFiles", "getChannelFiles"}

Deletes == {"deleteMessage", "deleteUser", "deleteFile"}

ParticipantMethods ==
    {"getParticipants", "addParticipant", "removeParticipant", "updateParticipant"}

\* the first argument of this.pulse.emit in each mutation
EventName_AlwaysCreate(m) ==
    CASE m \in {"createMessage", "updateMessage", "deleteMessage"} -> "message_create"
      [] m \in {"createUser", "updateUser", "deleteUser"} -> "user_create"
      [] OTHER -> "file_upload"

EventName(m) ==
    CASE m = "createMessage" -> "message_create"
      [] m = "updateMessage" -> "message_update"
      [] m = "deleteMessage" -> "message_delete"
      [] m = "createUser" -> "user_create"
      [] m = "updateUser" -> "user_update"
      [] m = "deleteUser" -> "user_delete"
      [] m = "uploadFile" -> "file_upload"
      [] m = "uploadChannelFile" -> "file_upload"
      [] m = "deleteFile" -> "file_delete"

\* data.data of a 2xx response, the ids the application passes to a delete,
\* and the errors a failed request is rejected with
Entities ==
    { {<<"id", "x1">>, <<"content", "hello">>},
      {<<"id", "x2">>, <<"content", "bye">>, <<"userId", "author">>} }

EntityIds == {"x1", "x2"}

channelId == "c1"

HttpErrors == {"404", "500"}

\* the second argument of this.pulse.emit: data.data, or the marker of a delete
EmitData(m, id, entity) ==
    CASE m = "deleteMessage" -> {<<"id", id>>, <<"channelId", channelId>>}
      [] m \in {"deleteUser", "deleteFile"} -> {<<"id", id>>}
      [] OTHER -> entity

\* what the method returns: data.data in a one-element sequence, or nothing
\* (Promise<void>) for a delete
ReturnValue(m, entity) == IF m \in Deletes \cup {"deleteChannel"} THEN <<>> ELSE <<entity>>

\* method = the service method the step belongs to, step = "call" (up to the
\* first await), "response" (after the HTTP request settled) or "emitted"
\* (after pulse.emit settled), pulse = the service has a manager, id = the id
\* argument of the call, response = data.data of the response handled in this
\* step, failed = the error the request handled in this step was rejected with,
\* outcome/value/error = how the method settled in this step, requests = the
\* HTTP requests sent in this step, emits = the pulse.emit calls made in this
\* step
NoService ==
    [method |-> "none", step |-> "none", pulse |-> FALSE, id |-> "", response |-> <<>>,
     failed |-> "", outcome |-> "none", value |-> <<>>, error |-> "", requests |-> 0,
     emits |-> <<>>]

\* the record of a step of call c
ServiceStep(c, step) ==
    [NoService EXCEPT !.method = c.method, !.step = step, !.pulse = c.pulse, !.id = c.id]

\* a removeParticipant call is between two of its emits: its continuation is
\* a microtask and runs before any event of the network
ServiceDrained == \A k \in 1..Len(calls) : calls[k].phase # "next"

\* a step that does not enter the domain services
ServiceIdle ==
    /\ lastService' = NoService
    /\ UNCHANGED <<calls, channelID>>

\* service.method(...) up to its first await: the request is sent.  pulse tells
\* whether the service object was constructed with a manager.
ServiceCall(m, p, id) ==
    /\ Len(calls) < MaxCalls
    /\ calls' = Append(calls, [method |-> m, pulse |-> p, id |-> id, ids |-> <<>>,
                               phase |-> "http", waits |-> 0, value |-> <<>>])
    /\ lastService' = [NoService EXCEPT !.method = m, !.step = "call", !.pulse = p,
                                        !.id = id, !.requests = 1]
    /\ ManagerIdle
    /\ UNCHANGED channelID

\* a method that sends its request once more when the request failed
HttpFailure_Retries(i, err) ==
    /\ i \in 1..Len(calls)
    /\ calls[i].phase = "http"
    /\ MicrotasksDrained
    /\ ServiceDrained
    /\ calls' = calls
    /\ lastService' = [ServiceStep(calls[i], "response") EXCEPT
                           !.failed = err, !.requests = 1]
    /\ ManagerIdle
    /\ UNCHANGED channelID

\* a method that drops the connection of its manager when the request failed
HttpFailure_Disconnects(i, err) ==
    /\ i \in 1..Len(calls)
    /\ calls[i].phase = "http"
    /\ MicrotasksDrained
    /\ ServiceDrained
    /\ calls' = Remove(calls, i)
    /\ lastService' = [ServiceStep(calls[i], "response") EXCEPT
                           !.failed = err, !.outcome = "rejected", !.error = err]
    /\ disconnect
    /\ UNCHANGED channelID

\* the request of call i fails: `await this.post(...)` throws and the method
\* rejects with the error of the request
HttpFailure(i, err) ==
    /\ i \in 1..Len(calls)
    /\ calls[i].phase = "http"
    /\ MicrotasksDrained
    /\ ServiceDrained
    /\ calls' = Remove(calls, i)
    /\ lastService' = [ServiceStep(calls[i], "response") EXCEPT
                           !.failed = err, !.outcome = "rejected", !.error = err]
    /\ ManagerIdle
    /\ UNCHANGED channelID

\* after a 2xx response: `if (this.pulse) { await this.pulse.emit(...) }`
AfterWrite(c) == c.method \in Mutations /\ c.pulse

\* the request of call i succeeds with data.data = entity: a query, and a
\* mutation of a service without manager, return; a mutation of a service with
\* a manager calls pulse.emit and awaits it
HttpSuccess(i, entity) ==
    /\ i \in 1..Len(calls)
    /\ calls[i].phase = "http"
    /\ MicrotasksDrained
    /\ ServiceDrained
    /\ calls[i].method \notin ParticipantMethods
    /\ LET c == calls[i]
           e == EventName(c.method)
           d == EmitData(c.method, c.id, entity)
           v == ReturnValue(c.method, entity)
       IN IF AfterWrite(c)
          THEN /\ emit(e, d)
               /\ calls' = [calls EXCEPT ![i] = [c EXCEPT !.phase = "emit",
                                                          !.waits = Len(pending) + 1,
                                                          !.value = v]]
               /\ lastService' = [ServiceStep(c, "response") EXCEPT
                                      !.response = <<entity>>,
                                      !.emits = <<[event |-> e, data |-> d]>>]
          ELSE /\ calls' = Remove(calls, i)
               /\ lastService' = [ServiceStep(c, "response") EXCEPT
                                      !.response = <<entity>>,
                                      !.outcome = "returned", !.value = v]
               /\ ManagerIdle
    /\ UNCHANGED channelID

\* the call goes on after its emit: the loop of removeParticipant has ids left
\* and the emit did not reject
Continues(c, em) == c.ids # <<>> /\ em.outcome # "rejected"

\* the calls once the emit() at position i of `pending` has settled with em: the
\* call that awaited it is gone or at its next emit, the others follow the
\* positions of their emits
Settled(cs, i, em) ==
    LET Keep_(c) == c.waits # i \/ Continues(c, em)
        Shift(c) == IF c.waits > i THEN [c EXCEPT !.waits = @ - 1]
                    ELSE IF c.waits = i THEN [c EXCEPT !.waits = 0, !.phase = "next"]
                    ELSE c
        kept == SelectSeq(cs, Keep_)
    IN [k \in 1..Len(kept) |-> Shift(kept[k])]

\* a method that returns the entity of the response whatever became of its emit
AfterEmit_IgnoresFailure(c, em) ==
    [ServiceStep(c, "emitted") EXCEPT !.outcome = "returned", !.value = c.value]

\* `await this.pulse.emit(...)` has settled: a rejection is thrown on to the
\* caller, otherwise `return data.data`
AfterEmit(c, em) ==
    IF em.outcome = "rejected"
    THEN [ServiceStep(c, "emitted") EXCEPT !.outcome = "rejected", !.error = em.error]
    ELSE IF Continues(c, em)
    THEN ServiceStep(c, "emitted")
    ELSE [ServiceStep(c, "emitted") EXCEPT !.outcome = "returned", !.value = c.value]

\* the continuation of emit() number i runs and, right after it, the
\* continuation of the service method that awaited it
ServiceEmitResume(i) ==
    /\ emitResume(i)
    /\ calls' = Settled(calls, i, lastEmit')
    /\ lastService' =
         IF \E k \in 1..Len(calls) : calls[k].waits = i
         THEN AfterEmit(calls[CHOOSE k \in 1..Len(calls) : calls[k].waits = i], lastEmit')
         ELSE NoService
    /\ UNCHANGED channelID

\* an event of the transport while domain services are in use
ServiceTransportOpen(s) == ServiceDrained /\ TransportOpen(s) /\ ServiceIdle

ServiceTransportError(s) == ServiceDrained /\ TransportError(s) /\ ServiceIdle

\* ---------------------------------- ChannelService and ParticipantService
\* ChannelService has no manager; its `participants` is a ParticipantService
\* built around it, and an application can build a ParticipantService around a
\* ChannelService and a manager of its own
ChannelMutations == {"createChannel", "updateChannel", "deleteChannel"}

ChannelQueries == {"getChannels", "getChannel", "getChannelsByUserID"}

ChannelIds == {"", "c1"}

IdLists == {<<>>, <<"p1">>, <<"p1", "p2">>}

UsageError == "Channel ID is not set. Please connect to a channel first."

\* the participant object passed to addParticipant / updateParticipant
Participant(id) == {<<"id", id>>, <<"role", "member">>}

\* a connect that keeps a selection already made
ChannelService_connect_FirstWins(id) ==
    /\ channelID' = IF channelID = "null" THEN id ELSE channelID
    /\ lastService' = [NoService EXCEPT !.method = "connect", !.step = "call",
                                        !.id = id, !.outcome = "returned"]
    /\ ManagerIdle
    /\ UNCHANGED calls

\* ChannelService.connect(channelID)
ChannelService_connect(id) ==
    /\ channelID' = id
    /\ lastService' = [NoService EXCEPT !.method = "connect", !.step = "call",
                                        !.id = id, !.outcome = "returned"]
    /\ ManagerIdle
    /\ UNCHANGED calls

\* a method of ChannelService other than connect, up to its await
ChannelCall(m, id) == ServiceCall(m, FALSE, id)

\* a guard that lets the empty string through
NoChannel_NullOnly(id) == id = "null"

\* !this.channel.channelID
NoChannel(id) == id \in {"null", ""}

\* a method of ParticipantService up to its first await: the usage error, or
\* the request (getParticipants sends it through channel.getChannel)
ParticipantCall(m, p, ids) ==
    IF NoChannel(channelID)
    THEN /\ lastService' = [NoService EXCEPT !.method = m, !.step = "call", !.pulse = p,
                                !.outcome = "rejected", !.error = UsageError]
         /\ ManagerIdle
         /\ UNCHANGED <<calls, channelID>>
    ELSE /\ Len(calls) < MaxCalls
         /\ calls' = Append(calls, [method |-> m, pulse |-> p, id |-> "", ids |-> ids,
                                    phase |-> "http", waits |-> 0, value |-> <<>>])
         /\ lastService' = [NoService EXCEPT !.method = m, !.step = "call", !.pulse = p,
                                             !.requests = 1]
         /\ ManagerIdle
         /\ UNCHANGED channelID

\* the emit a ParticipantService call makes next
ParticipantEmit(c) ==
    CASE c.method = "addParticipant" ->
           [event |-> "participant_create", data |-> Participant(c.ids[1])]
      [] c.method = "updateParticipant" ->
           [event |-> "participant_update", data |-> Participant(c.ids[1])]
      [] c.method = "removeParticipant" ->
           [event |-> "participant_delete", data |-> {<<"id", c.ids[1]>>}]

\* call c, at position i, makes its next emit and awaits it
ParticipantEmits(i, c, step) ==
    LET em == ParticipantEmit(c)
    IN /\ emit(em.event, em.data)
       /\ calls' = [calls EXCEPT ![i] = [c EXCEPT !.phase = "emit",
                                                  !.waits = Len(pending) + 1,
                                                  !.ids = Tail(@)]]
       /\ lastService' = [ServiceStep(c, step) EXCEPT !.emits = <<em>>]

\* the request of a ParticipantService call succeeds: getParticipants returns
\* channel.participants, a mutation emits if the service has a manager
\* (removeParticipant once per id, one after the other) and returns nothing
ParticipantResponse(i, entity) ==
    /\ i \in 1..Len(calls)
    /\ calls[i].phase = "http"
    /\ calls[i].method \in ParticipantMethods
    /\ MicrotasksDrained
    /\ ServiceDrained
    /\ LET c == calls[i]
       IN IF c.method # "getParticipants" /\ c.pulse /\ c.ids # <<>>
          THEN ParticipantEmits(i, c, "response")
          ELSE /\ calls' = Remove(calls, i)
               /\ lastService' = [ServiceStep(c, "response") EXCEPT
                     !.response = <<entity>>,
                     !.outcome = "returned",
                     !.value = IF c.method = "getParticipants"
                               THEN <<{q \in entity : q[1] = "participants"}>>
                               ELSE <<>>]
               /\ ManagerIdle
    /\ UNCHANGED channelID

\* removeParticipant goes round its loop: the emit for the next id
ParticipantNext(i) ==
    /\ i \in 1..Len(calls)
    /\ calls[i].phase = "next"
    /\ ParticipantEmits(i, calls[i], "next")
    /\ UNCHANGED channelID

\* ------------------------------------------------------------ CryptoService
\* a string is the sequence of its UTF-16 code units.  The characters used
\* below: '"' 34, '+' 43, '-' 45, '.' 46, '/' 47, '=' 61, '\' 92, '_' 95.

\* chars.charAt(i), chars = 'A'..'Z' 'a'..'z' '0'..'9' '+' '/'
charAt(i) ==
    IF i < 26 THEN 65 + i
    ELSE IF i < 52 THEN 97 + (i - 26)
    ELSE IF i < 62 THEN 48 + (i - 52)
    ELSE IF i = 62 THEN 43
    ELSE 47

\* bit k of the code unit n
Bit(n, k) == IF k < 0 THEN 0 ELSE (n \div (2 ^ k)) % 2

\* (((a << 16) | (b << 8) | c) >> shift) & 63, for shift up to 18
Sextet(a, b, c, shift) ==
    LET bit(k) == IF Bit(a, k - 16) + Bit(b, k - 8) + Bit(c, k) > 0 THEN 1 ELSE 0
    IN bit(shift) + 2 * bit(shift + 1) + 4 * bit(shift + 2) + 8 * bit(shift + 3)
       + 16 * bit(shift + 4) + 32 * bit(shift + 5)

\* every code unit of str is at most 0xFF
Latin1(str) == \A i \in 1..Len(str) : str[i] <= 255

\* btoa of the platform, for a Latin-1 string: three bytes give four
\* characters, the last group is padded with '='
RECURSIVE btoa(_)
btoa(str) ==
    IF str = <<>> THEN <<>>
    ELSE LET n == Len(str)
             a == str[1]
             b == IF n > 1 THEN str[2] ELSE 0
             c == IF n > 2 THEN str[3] ELSE 0
         IN << charAt(Sextet(a, b, c, 18)),
               charAt(Sextet(a, b, c, 12)),
               IF n > 1 THEN charAt(Sextet(a, b, c, 6)) ELSE 61,
               IF n > 2 THEN charAt(Sextet(a, b, c, 0)) ELSE 61 >>
            \o btoa(SubSeq(str, 4, n))

\* the while loop of base64Encode from index i on (i counts from 0, as in the
\* source): i is advanced past the characters that exist only, so the tests
\* `i - 2 < str.length` and `i - 1 < str.length` are made with i <= str.length
RECURSIVE base64Loop(_, _)
base64Loop(str, i) ==
    IF ~(i < Len(str)) THEN <<>>
    ELSE LET a  == str[i + 1]
             i1 == i + 1
             b  == IF i1 < Len(str) THEN str[i1 + 1] ELSE 0
             i2 == IF i1 < Len(str) THEN i1 + 1 ELSE i1
             c  == IF i2 < Len(str) THEN str[i2 + 1] ELSE 0
             i3 == IF i2 < Len(str) THEN i2 + 1 ELSE i2
         IN << charAt(Sextet(a, b, c, 18)),
               charAt(Sextet(a, b, c, 12)),
               IF i3 - 2 < Len(str) THEN charAt(Sextet(a, b, c, 6)) ELSE 61,
               IF i3 - 1 < Len(str) THEN charAt(Sextet(a, b, c, 0)) ELSE 61 >>
            \o base64Loop(str, i3)

\* a result that may be an exception instead of a string
Threw == [threw |-> TRUE, text |-> <<>>]

Returned(text) == [threw |-> FALSE, text |-> text]

\* CryptoService.base64Encode: btoa where the platform has one (it throws for a
\* code unit above 0xFF), the loop otherwise
base64Encode(str, hasBtoa) ==
    IF hasBtoa
    THEN IF Latin1(str) THEN Returned(btoa(str)) ELSE Threw
    ELSE Returned(base64Loop(str, 0))

\* .replace(/=/g, '').replace(/\+/g, '-').replace(/\//g, '_')
RECURSIVE UrlSafe(_)
UrlSafe(t) ==
    IF t = <<>> THEN <<>>
    ELSE (IF Head(t) = 61 THEN <<>>
          ELSE IF Head(t) = 43 THEN <<45>>
          ELSE IF Head(t) = 47 THEN <<95>>
          ELSE <<Head(t)>>) \o UrlSafe(Tail(t))

\* base64UrlEncode without the three replacements
base64UrlEncode_NoReplace(str, hasBtoa) == base64Encode(str, hasBtoa)

\* CryptoService.base64UrlEncode
base64UrlEncode(str, hasBtoa) ==
    LET r == base64Encode(str, hasBtoa)
    IN IF r.threw THEN Threw ELSE Returned(UrlSafe(r.text))

\* CryptoService.hmacSha256(key, message): sha256 is not computed here; digest
\* stands for the bytes of finalHash, and every byte string of Digests is
\* tried for every key and message
hmacSha256(key, message, hasBtoa, digest) == base64UrlEncode(digest, hasBtoa)

\* ------------------------------------------------- BaseService.generateToken
\* the decimal digits of a natural number
RECURSIVE Digits(_)
Digits(n) == IF n < 10 THEN <<48 + n>> ELSE Digits(n \div 10) \o <<48 + (n % 10)>>

\* JSON.stringify of a number
Decimal(n) == IF n < 0 THEN <<45>> \o Digits(0 - n) ELSE Digits(n)

\* JSON.stringify of a string without control characters: '"' and '\' are
\* escaped with a '\'
RECURSIVE Escape(_)
Escape(str) ==
    IF str = <<>> THEN <<>>
    ELSE (IF Head(str) \in {34, 92} THEN <<92, Head(str)>> ELSE <<Head(str)>>)
         \o Escape(Tail(str))

Quote(str) == <<34>> \o Escape(str) \o <<34>>

\* JSON.stringify({ typ: "JWT", alg: "HS256" })
HeaderJson ==
    <<123, 34, 116, 121, 112, 34, 58, 34, 74, 87, 84, 34, 44, 34, 97, 108, 103, 34, 58,
      34, 72, 83, 50, 53, 54, 34, 125>>

\* JSON.stringify({ sub, iat, exp, jti: "jwt_nonce" })
PayloadJson(sub, iat, exp) ==
    <<123, 34, 115, 117, 98, 34, 58>> \o Quote(sub)
    \o <<44, 34, 105, 97, 116, 34, 58>> \o Decimal(iat)
    \o <<44, 34, 101, 120, 112, 34, 58>> \o Decimal(exp)
    \o <<44, 34, 106, 116, 105, 34, 58, 34, 106, 119, 116, 95, 110, 111, 110, 99, 101, 34, 125>>

\* generateToken(secretID, secretKey, expiry) called when
\* Math.floor(Date.now() / 1000) is env.now, on a platform with or without btoa
\* (env.btoa), sha256 giving env.digest
generateToken(secretID, secretKey, expiry, env) ==
    LET encodedHeader == base64UrlEncode(HeaderJson, env.btoa)
        encodedPayload ==
            base64UrlEncode(PayloadJson(secretID, env.now, env.now + expiry), env.btoa)
        tokenString == encodedHeader.text \o <<46>> \o encodedPayload.text
        signature == hmacSha256(secretKey, tokenString, env.btoa, env.digest)
        encodedSignature == base64UrlEncode(signature.text, env.btoa)
    IN IF encodedHeader.threw \/ encodedPayload.threw \/ signature.threw
          \/ encodedSignature.threw
       THEN Threw
       ELSE Returned(tokenString \o <<46>> \o encodedSignature.text)

\* the strings over a set of code units, up to a length
Strings(chars, n) == UNION {[1..k -> chars] : k \in 0..n}

\* 'a', '?', '"', and a code unit above 0xFF
TextChars == {97, 63, 34, 20013}

\* digests of one, two and three bytes, so that every padding occurs, with the
\* bytes 0xFB and 0xFF, whose base64 has '+' and '/'
Digests == {<<251>>, <<255, 251>>, <<0, 251, 255>>}

Expiries == {0 - 30, 0, 30}

Nows == {0, 1762286400}

\* no function of the gateway has been applied
NoFn == [name |-> "none", applied |-> FALSE]

\* generateToken is applied to the arguments drawn at the start
GenerateToken ==
    /\ fn.name = "generateToken"
    /\ ~fn.applied
    /\ fn' = [fn EXCEPT !.applied = TRUE,
                        !.result = generateToken(fn.args.secretID, fn.args.secretKey,
                                                 fn.args.expiry, fn.args.env)]
    /\ ManagerIdle
    /\ UNCHANGED <<clientVars, serviceVars, manager>>

\* ------------------------------------------------ lib/utils and construction
Http == <<104, 116, 116, 112, 58, 47, 47>>          \* "http://"

Https == <<104, 116, 116, 112, 115, 58, 47, 47>>    \* "https://"

Ws == <<119, 115, 58, 47, 47>>                      \* "ws://"

Wss == <<119, 115, 115, 58, 47, 47>>                \* "wss://"

\* String.prototype.startsWith
startsWith(str, prefix) ==
    Len(str) >= Len(prefix) /\ SubSeq(str, 1, Len(prefix)) = prefix

\* httpUrl.replace(/^https?:\/\//, wsPrefix): "http", an optional "s" and
\* "://" at the very start are replaced; a text without them is left as it is
replace(httpUrl, wsPrefix) ==
    IF startsWith(httpUrl, Https)
    THEN wsPrefix \o SubSeq(httpUrl, Len(Https) + 1, Len(httpUrl))
    ELSE IF startsWith(httpUrl, Http)
    THEN wsPrefix \o SubSeq(httpUrl, Len(Http) + 1, Len(httpUrl))
    ELSE httpUrl

\* new Error(message), thrown
Error(message) == [threw |-> TRUE, text |-> <<>>, error |-> message]

\* getWebSocketFromHttpUrl with wsPrefix always "ws://"
getWebSocketFromHttpUrl_AlwaysWs(httpUrl) ==
    IF ~startsWith(httpUrl, Http) /\ ~startsWith(httpUrl, Https)
    THEN Error("Invalid HTTP URL")
    ELSE Returned(replace(httpUrl, Ws))

getWebSocketFromHttpUrl(httpUrl) ==
    IF ~startsWith(httpUrl, Http) /\ ~startsWith(httpUrl, Https)
    THEN Error("Invalid HTTP URL")
    ELSE LET wsPrefix == IF startsWith(httpUrl, Https) THEN Wss ELSE Ws
         IN Returned(replace(httpUrl, wsPrefix))

\* the token generateToken(secretID, secretKey, expiry) returns when the clock
\* is at env.now, as the manager keeps it: named by the claims it carries and
\* the key it is signed with, which determine its text
Minted(secretID, secretKey, expiry, env) ==
    [sub |-> secretID, iat |-> env.now, exp |-> env.now + expiry, key |-> secretKey]

\* no PulseService has been constructed
NoManager ==
    [constructed |-> FALSE, clientID |-> "", token |-> Minted(<<>>, <<>>, 0, [now |-> 0]),
     uri |-> <<>>, error |-> ""]

\* new PulseService(baseURL, secretID, secretKey): clientID, then token, then
\* uri, the template's parts in order; an exception of generateToken or of
\* getWebSocketFromHttpUrl leaves no object
PulseService(baseURL, secretID, secretKey, env) ==
    LET token == generateToken(secretID, secretKey, 14600, env)
        wsUrl == getWebSocketFromHttpUrl(baseURL)
    IN IF token.threw
       THEN [NoManager EXCEPT !.error = "InvalidCharacterError"]
       ELSE IF wsUrl.threw
       THEN [NoManager EXCEPT !.error = wsUrl.error]
       ELSE [constructed |-> TRUE, clientID |-> clientID,
             token |-> Minted(secretID, secretKey, 14600, env),
             uri |-> <<wsUrl.text, "/v1/pulse/", clientID, "/ws?token=",
                       Minted(secretID, secretKey, 14600, env)>>,
             error |-> ""]

\* the platform and the clock of the constructions
Platform == [now |-> 1762286400, btoa |-> TRUE, digest |-> <<255, 251>>]

\* the manager of a client configured with "https://a", "a", "k"
Configured == PulseService(Https \o <<97>>, <<97>>, <<107>>, Platform)

\* getWebSocketFromHttpUrl is applied to the URL drawn at the start
GetWebSocketFromHttpUrl ==
    /\ fn.name = "getWebSocketFromHttpUrl"
    /\ ~fn.applied
    /\ fn' = [fn EXCEPT !.applied = TRUE,
                        !.result = getWebSocketFromHttpUrl(fn.args.httpUrl)]
    /\ ManagerIdle
    /\ UNCHANGED <<clientVars, serviceVars, manager>>

\* new PulseService(baseURL, "a", "k") where none has been attempted
PulseService_constructor(baseURL) ==
    /\ manager = NoManager
    /\ manager' = PulseService(baseURL, <<97>>, <<107>>, Platform)
    /\ ManagerIdle
    /\ UNCHANGED <<clientVars, serviceVars, fn>>

\* new StreamClient({url, secretID: "a", secretKey: "k", autoConnect}): the
\* PulseService is built first, and its exception leaves the constructor
\* before any field after it is set
StreamClient_new(url, autoConnect) ==
    /\ manager = NoManager
    /\ manager' = PulseService(url, <<97>>, <<107>>, Platform)
    /\ IF manager'.constructed
       THEN StreamClient_constructor(autoConnect)
       ELSE /\ ~client.constructed
            /\ client' = client
            /\ lastClient' = [NoClientStep EXCEPT !.op = "constructor",
                                                  !.threw = manager'.error]
            /\ ManagerIdle
    /\ UNCHANGED <<serviceVars, fn>>

\* ------------------------------------------- BaseService request interceptor
\* config.headers.Authorization: not set, or set to a text
Absent == [present |-> FALSE, value |-> <<>>]

Present(value) == [present |-> TRUE, value |-> value]

Bearer == <<66, 101, 97, 114, 101, 114, 32>>        \* "Bearer "

\* not set, "", "Basic x" and "Bearer t"
Authorizations ==
    {Absent, Present(<<>>), Present(<<66, 97, 115, 105, 99, 32, 120>>),
     Present(Bearer \o <<116>>)}

\* the interceptor with the test of the header left out
interceptor_AlwaysMints(Authorization, secretID, secretkey, env) ==
    LET token == generateToken(secretID, secretkey, 30, env)
    IN IF token.threw
       THEN [rejected |-> TRUE, Authorization |-> Authorization]
       ELSE [rejected |-> FALSE, Authorization |-> Present(Bearer \o token.text)]

\* the request interceptor of a gateway built with secretID and secretkey, run
\* on a config whose headers.Authorization is given: !config.headers.Authorization
\* holds for a header that is not set and for the empty text; generateToken is
\* called without an expiry, so with its default of 30; an exception of
\* generateToken rejects the request
interceptor(Authorization, secretID, secretkey, env) ==
    IF ~Authorization.present \/ Authorization.value = <<>>
    THEN LET token == generateToken(secretID, secretkey, 30, env)
         IN IF token.threw
            THEN [rejected |-> TRUE, Authorization |-> Authorization]
            ELSE [rejected |-> FALSE, Authorization |-> Present(Bearer \o token.text)]
    ELSE [rejected |-> FALSE, Authorization |-> Authorization]

\* a request passes the interceptor of the gateway drawn at the start
Request ==
    /\ fn.name = "interceptor"
    /\ ~fn.applied
    /\ fn' = [fn EXCEPT !.applied = TRUE,
                        !.result = interceptor(fn.args.Authorization, fn.args.secretID,
                                               fn.args.secretkey, fn.args.env)]
    /\ ManagerIdle
    /\ UNCHANGED <<clientVars, serviceVars, manager>>

\* ------------------------------------------------------------- specification
\* every object as its constructor leaves it
Constructed ==
    /\ ws = Null
    /\ connectionPromise = Null
    /\ userId = NoUser
    /\ listeners = <<>>
    /\ sockets = <<>>
    /\ pending = <<>>
    /\ lastCall = NoCall
    /\ lastEmit = NoEmit
    /\ lastMsg = NoMsg
    /\ client = NoClient
    /\ lastClient = NoClientStep
    /\ calls = <<>>
    /\ channelID = "null"
    /\ lastService = NoService

Init == Constructed /\ fn = NoFn /\ manager = Configured

\* the manager used on its own: the StreamClient fields stay as they are
Next ==
    \/ \E u \in Users : connect(u) /\ UNCHANGED outerVars
    \/ \E e \in EmitEvents, d \in Datas : emit(e, d) /\ UNCHANGED outerVars
    \/ \E i \in 1..MaxPending : emitResume(i) /\ UNCHANGED outerVars
    \/ disconnect /\ UNCHANGED outerVars
    \/ \E e \in Events, f \in Fns : on(e, f) /\ UNCHANGED outerVars
    \/ \E e \in Events, f \in Fns : off(e, f) /\ UNCHANGED outerVars
    \/ \E s \in 1..MaxSockets : TransportOpen(s) /\ UNCHANGED outerVars
    \/ \E s \in 1..MaxSockets : TransportError(s) /\ UNCHANGED outerVars
    \/ \E s \in 1..MaxSockets : TransportClose(s) /\ UNCHANGED outerVars
    \/ \E s \in 1..MaxSockets, text \in Frames :
          TransportMessage(s, text) /\ UNCHANGED outerVars

Spec == Init /\ [][Next]_vars

\* the part of the manager that concerns inbound frames and listeners: every
\* operation except emit()
NextDispatch ==
    \/ \E u \in Users : connect(u) /\ UNCHANGED outerVars
    \/ disconnect /\ UNCHANGED outerVars
    \/ \E e \in Events, f \in Fns : on(e, f) /\ UNCHANGED outerVars
    \/ \E e \in Events, f \in Fns : off(e, f) /\ UNCHANGED outerVars
    \/ \E s \in 1..MaxSockets : TransportOpen(s) /\ UNCHANGED outerVars
    \/ \E s \in 1..MaxSockets : TransportError(s) /\ UNCHANGED outerVars
    \/ \E s \in 1..MaxSockets : TransportClose(s) /\ UNCHANGED outerVars
    \/ \E s \in 1..MaxSockets, text \in Frames :
          TransportMessage(s, text) /\ UNCHANGED outerVars

SpecDispatch == Init /\ [][NextDispatch]_vars

\* the part of the manager that concerns the connection: every operation
\* except on(), off() and the delivery of inbound frames
NextConnection ==
    \/ \E u \in Users : connect(u) /\ UNCHANGED outerVars
    \/ \E e \in EmitEvents, d \in Datas : emit(e, d) /\ UNCHANGED outerVars
    \/ \E i \in 1..MaxPending : emitResume(i) /\ UNCHANGED outerVars
    \/ disconnect /\ UNCHANGED outerVars
    \/ \E s \in 1..MaxSockets : TransportOpen(s) /\ UNCHANGED outerVars
    \/ \E s \in 1..MaxSockets : TransportError(s) /\ UNCHANGED outerVars
    \/ \E s \in 1..MaxSockets : TransportClose(s) /\ UNCHANGED outerVars

SpecConnection == Init /\ [][NextConnection]_vars

\* the same operations with the arguments that matter to the frame emit()
\* builds: two user ids, the two events of sendTyping / sendPresence, emit()
\* without data and with data that has a userId key of its own
PayloadUsers == {"u1", "u2"}

PayloadEvents == {"typing", "presence"}

PayloadDatas == { {}, {<<"message", "hello">>, <<"userId", "caller">>} }

NextPayload ==
    \/ \E u \in PayloadUsers : connect(u) /\ UNCHANGED outerVars
    \/ \E e \in PayloadEvents, d \in PayloadDatas : emit(e, d) /\ UNCHANGED outerVars
    \/ \E i \in 1..MaxPending : emitResume(i) /\ UNCHANGED outerVars
    \/ disconnect /\ UNCHANGED outerVars
    \/ \E s \in 1..MaxSockets : TransportOpen(s) /\ UNCHANGED outerVars
    \/ \E s \in 1..MaxSockets : TransportError(s) /\ UNCHANGED outerVars
    \/ \E s \in 1..MaxSockets : TransportClose(s) /\ UNCHANGED outerVars

SpecPayload == Init /\ [][NextPayload]_vars

\* the StreamClient and the connection of its manager
NextClient ==
    \/ \E a \in BOOLEAN : StreamClient_constructor(a) /\ UNCHANGED <<serviceVars, gatewayVars>>
    \/ \E u \in Users : StreamClient_login(u) /\ UNCHANGED <<serviceVars, gatewayVars>>
    \/ StreamClient_connect /\ UNCHANGED <<serviceVars, gatewayVars>>
    \/ \E i \in 1..MaxSockets : StreamClient_connect_resume(i) /\ UNCHANGED <<serviceVars, gatewayVars>>
    \/ reconnectTimer /\ UNCHANGED <<serviceVars, gatewayVars>>
    \/ StreamClient_disconnect /\ UNCHANGED <<serviceVars, gatewayVars>>
    \/ \E s \in 1..MaxSockets : ClientTransportOpen(s) /\ UNCHANGED <<serviceVars, gatewayVars>>
    \/ \E s \in 1..MaxSockets : ClientTransportError(s) /\ UNCHANGED <<serviceVars, gatewayVars>>
    \/ \E s \in 1..MaxSockets : ClientTransportClose(s) /\ UNCHANGED <<serviceVars, gatewayVars>>

SpecClient == Init /\ [][NextClient]_vars

\* the runs in which every connection attempt fails: no socket ever opens and
\* nobody disconnects; every connecting socket gets its error event, every
\* continuation runs and every timer fires
NextClientFailing ==
    \/ \E a \in BOOLEAN : StreamClient_constructor(a) /\ UNCHANGED <<serviceVars, gatewayVars>>
    \/ \E u \in Users : StreamClient_login(u) /\ UNCHANGED <<serviceVars, gatewayVars>>
    \/ StreamClient_connect /\ UNCHANGED <<serviceVars, gatewayVars>>
    \/ \E i \in 1..MaxSockets : StreamClient_connect_resume(i) /\ UNCHANGED <<serviceVars, gatewayVars>>
    \/ reconnectTimer /\ UNCHANGED <<serviceVars, gatewayVars>>
    \/ \E s \in 1..MaxSockets : ClientTransportError(s) /\ UNCHANGED <<serviceVars, gatewayVars>>
    \/ \E s \in 1..MaxSockets : ClientTransportClose(s) /\ UNCHANGED <<serviceVars, gatewayVars>>

SpecClientFailing ==
    /\ Init
    /\ [][NextClientFailing]_vars
    /\ WF_vars((\E i \in 1..MaxSockets : StreamClient_connect_resume(i))
               /\ UNCHANGED <<serviceVars, gatewayVars>>)
    /\ WF_vars(reconnectTimer /\ UNCHANGED <<serviceVars, gatewayVars>>)
    /\ WF_vars((\E s \in 1..MaxSockets : ClientTransportError(s))
               /\ UNCHANGED <<serviceVars, gatewayVars>>)

\* the mutations of the domain services of a StreamClient (with manager) and of
\* the same services constructed on their own (without manager), on top of the
\* manager, while the socket is not closed by either side; the id argument
\* matters to a delete only
NextMutation ==
    \/ \E m \in Mutations, p \in BOOLEAN, id \in EntityIds :
          /\ (m \notin Deletes => id = "x1")
          /\ ServiceCall(m, p, id) /\ UNCHANGED <<clientVars, gatewayVars>>
    \/ \E i \in 1..MaxCalls, err \in HttpErrors : HttpFailure(i, err) /\ UNCHANGED <<clientVars, gatewayVars>>
    \/ \E i \in 1..MaxCalls, entity \in Entities :
          HttpSuccess(i, entity) /\ UNCHANGED <<clientVars, gatewayVars>>
    \/ \E i \in 1..MaxPending : ServiceEmitResume(i) /\ UNCHANGED <<clientVars, gatewayVars>>
    \/ \E s \in 1..MaxSockets : ServiceTransportOpen(s) /\ UNCHANGED <<clientVars, gatewayVars>>
    \/ \E s \in 1..MaxSockets : ServiceTransportError(s) /\ UNCHANGED <<clientVars, gatewayVars>>

SpecMutation == Init /\ [][NextMutation]_vars

\* a ChannelService, its participants, and a ParticipantService with a manager
\* built around it; addParticipant and updateParticipant take one participant,
\* and the id argument matters to deleteChannel only
NextChannel ==
    \/ \E id \in ChannelIds : ChannelService_connect(id) /\ UNCHANGED <<clientVars, gatewayVars>>
    \/ \E m \in ChannelMutations \cup ChannelQueries, id \in EntityIds :
          /\ (m # "deleteChannel" => id = "x1")
          /\ ChannelCall(m, id) /\ UNCHANGED <<clientVars, gatewayVars>>
    \/ \E m \in ParticipantMethods, p \in BOOLEAN, ids \in IdLists :
          /\ (m = "getParticipants" => ids = <<>>)
          /\ (m \in {"addParticipant", "updateParticipant"} => Len(ids) = 1)
          /\ ParticipantCall(m, p, ids) /\ UNCHANGED <<clientVars, gatewayVars>>
    \/ \E i \in 1..MaxCalls, err \in HttpErrors : HttpFailure(i, err) /\ UNCHANGED <<clientVars, gatewayVars>>
    \/ \E i \in 1..MaxCalls, entity \in Entities :
          HttpSuccess(i, entity) /\ UNCHANGED <<clientVars, gatewayVars>>
    \/ \E i \in 1..MaxCalls, entity \in Entities :
          ParticipantResponse(i, entity) /\ UNCHANGED <<clientVars, gatewayVars>>
    \/ \E i \in 1..MaxCalls : ParticipantNext(i) /\ UNCHANGED <<clientVars, gatewayVars>>
    \/ \E i \in 1..MaxPending : ServiceEmitResume(i) /\ UNCHANGED <<clientVars, gatewayVars>>
    \/ \E s \in 1..MaxSockets : ServiceTransportOpen(s) /\ UNCHANGED <<clientVars, gatewayVars>>
    \/ \E s \in 1..MaxSockets : ServiceTransportError(s) /\ UNCHANGED <<clientVars, gatewayVars>>

SpecChannel == Init /\ [][NextChannel]_vars

\* the read operations of all domain services, with and without manager, issued
\* one after the other while the application connects the manager and registers
\* a listener on it
NextQuery ==
    \/ \E m \in Queries, p \in BOOLEAN :
          calls = <<>> /\ ServiceCall(m, p, "x1") /\ UNCHANGED <<clientVars, gatewayVars>>
    \/ \E m \in ChannelQueries :
          calls = <<>> /\ ChannelCall(m, "x1") /\ UNCHANGED <<clientVars, gatewayVars>>
    \/ \E id \in ChannelIds : ChannelService_connect(id) /\ UNCHANGED <<clientVars, gatewayVars>>
    \/ \E p \in BOOLEAN :
          calls = <<>> /\ ParticipantCall("getParticipants", p, <<>>) /\ UNCHANGED <<clientVars, gatewayVars>>
    \/ \E i \in 1..MaxCalls, err \in HttpErrors : HttpFailure(i, err) /\ UNCHANGED <<clientVars, gatewayVars>>
    \/ \E i \in 1..MaxCalls, entity \in Entities :
          HttpSuccess(i, entity) /\ UNCHANGED <<clientVars, gatewayVars>>
    \/ \E i \in 1..MaxCalls, entity \in Entities :
          ParticipantResponse(i, entity) /\ UNCHANGED <<clientVars, gatewayVars>>
    \/ \E u \in Users : connect(u) /\ ServiceIdle /\ UNCHANGED <<clientVars, gatewayVars>>
    \/ \E e \in EmitEvents : on(e, "h1") /\ ServiceIdle /\ UNCHANGED <<clientVars, gatewayVars>>
    \/ \E s \in 1..MaxSockets : ServiceTransportOpen(s) /\ UNCHANGED <<clientVars, gatewayVars>>

SpecQuery == Init /\ [][NextQuery]_vars

\* generateToken applied to every identity of up to MaxText code units, the
\* empty and a one-letter secret, negative, zero and positive expiry, two
\* clock values, with and without btoa, and three digests
InitToken ==
    /\ Constructed
    /\ manager = Configured
    /\ fn \in [name : {"generateToken"},
               args : [secretID : Strings(TextChars, MaxText),
                       secretKey : {<<>>, <<107>>},
                       expiry : Expiries,
                       env : [now : Nows, btoa : BOOLEAN, digest : Digests]],
               applied : {FALSE},
               result : {Threw}]

NextToken == GenerateToken

SpecToken == InitToken /\ [][NextToken]_vars

\* the texts a URL is drawn from begin with nothing, "http://", "https://",
\* "HTTP://", "ftp://", "ws://", "http:/", " http://" or "xhttp://"
Schemes ==
    {<<>>, Http, Https, <<72, 84, 84, 80, 58, 47, 47>>, <<102, 116, 112, 58, 47, 47>>,
     Ws, <<104, 116, 116, 112, 58, 47>>, <<32>> \o Http, <<120>> \o Http}

\* 'a', '/', ':' and 's'
RestChars == {97, 47, 58, 115}

Urls == {scheme \o rest : scheme \in Schemes, rest \in Strings(RestChars, MaxRest)}

\* one URL is drawn; getWebSocketFromHttpUrl is applied to it, and a
\* PulseService or a StreamClient is constructed with it as its base and used
InitUrl ==
    /\ Constructed
    /\ manager = NoManager
    /\ fn \in [name : {"getWebSocketFromHttpUrl"},
               args : [httpUrl : Urls],
               applied : {FALSE},
               result : {Returned(<<>>)}]

NextUrl ==
    \/ GetWebSocketFromHttpUrl
    \/ PulseService_constructor(fn.args.httpUrl)
    \/ \E a \in BOOLEAN : StreamClient_new(fn.args.httpUrl, a)
    \/ \E u \in Users : StreamClient_login(u) /\ UNCHANGED <<serviceVars, gatewayVars>>
    \/ StreamClient_connect /\ UNCHANGED <<serviceVars, gatewayVars>>
    \/ \E u \in Users : manager.constructed /\ connect(u) /\ UNCHANGED outerVars

SpecUrl == InitUrl /\ [][NextUrl]_vars

\* a gateway with an identity of up to MaxText code units and an empty or a
\* one-letter secret receives one request, whose Authorization header is not
\* set, empty or set, at one of two clock values, on a platform with or
\* without btoa
InitRequest ==
    /\ Constructed
    /\ manager = Configured
    /\ fn \in [name : {"interceptor"},
               args : [Authorization : Authorizations,
                       secretID : Strings(TextChars, MaxText),
                       secretkey : {<<>>, <<107>>},
                       env : [now : Nows, btoa : BOOLEAN, digest : {<<255, 251>>}]],
               applied : {FALSE},
               result : {[rejected |-> FALSE, Authorization |-> Absent]}]

NextRequest == Request

SpecRequest == InitRequest /\ [][NextRequest]_vars

\* a manager constructed with the base "http://a" or "https://a" is connected,
\* used to emit, disconnected and closed by the peer, and receives envelopes
\* of its own and of a peer
InitIdentity ==
    /\ Constructed
    /\ fn = NoFn
    /\ manager \in {PulseService(base \o <<97>>, <<97>>, <<107>>, Platform) :
                       base \in {Http, Https}}

NextIdentity ==
    \/ NextConnection
    \/ \E e \in EmitEvents : on(e, "h1") /\ UNCHANGED outerVars
    \/ \E s \in 1..MaxSockets, env \in Envelopes :
          /\ env.event_type \in EmitEvents
          /\ TransportMessage(s, Stringify(env))
          /\ UNCHANGED outerVars

SpecIdentity == InitIdentity /\ [][NextIdentity]_vars

\* handlers are registered directly, through onEvent and through the
\* StreamClient, removed with off(), and envelopes of a peer arrive on the one
\* connection made
NextOnEvent ==
    \/ \E a \in BOOLEAN : StreamClient_constructor(a) /\ UNCHANGED <<serviceVars, gatewayVars>>
    \/ \E u \in Users : sockets = <<>> /\ connect(u) /\ UNCHANGED outerVars
    \/ \E s \in 1..MaxSockets : TransportOpen(s) /\ UNCHANGED outerVars
    \/ \E e \in Events : on(e, "h1") /\ UNCHANGED outerVars
    \/ \E e \in Events, h \in Fns : onEvent(e, h) /\ UNCHANGED outerVars
    \/ \E h \in Fns : StreamClient_onTyping(h) /\ UNCHANGED <<serviceVars, gatewayVars>>
    \/ \E h \in Fns : StreamClient_onMessageCreate(h) /\ UNCHANGED <<serviceVars, gatewayVars>>
    \/ \E e \in Events, f \in Fns : off(e, f) /\ UNCHANGED outerVars
    \/ \E s \in 1..MaxSockets, env \in Envelopes :
          /\ env.sender_id \in Peers
          /\ TransportMessage(s, Stringify(env))
          /\ UNCHANGED outerVars

SpecOnEvent == Init /\ [][NextOnEvent]_vars

\* a StreamClient is constructed with the options drawn at the start
\* (autoConnect on or off, maxReconnectAttempts from 0 up), the user logs in
\* and calls connect() once, and calls it again only when the counter is used
\* up and nothing is under way; sockets open, fail and close
InitRetry ==
    /\ Constructed
    /\ manager = Configured
    /\ fn \in [name : {"StreamClient"},
               args : [autoConnect : BOOLEAN,
                       maxReconnectAttempts : 0..MaxReconnectAttempts],
               applied : {FALSE}]

NextRetry ==
    \/ /\ StreamClient_options(fn.args.autoConnect, fn.args.maxReconnectAttempts)
       /\ UNCHANGED <<serviceVars, gatewayVars>>
    \/ \E u \in Users : StreamClient_login(u) /\ UNCHANGED <<serviceVars, gatewayVars>>
    \/ /\ \/ sockets = <<>>
          \/ /\ client.maxReconnectAttempts <= 0
             /\ client.timers = 0
             /\ client.waiting = <<>>
       /\ StreamClient_connect
       /\ UNCHANGED <<serviceVars, gatewayVars>>
    \/ \E i \in 1..MaxSockets : StreamClient_connect_resume(i) /\ UNCHANGED <<serviceVars, gatewayVars>>
    \/ reconnectTimer /\ UNCHANGED <<serviceVars, gatewayVars>>
    \/ \E s \in 1..MaxSockets : ClientTransportOpen(s) /\ UNCHANGED <<serviceVars, gatewayVars>>
    \/ \E s \in 1..MaxSockets : ClientTransportError(s) /\ UNCHANGED <<serviceVars, gatewayVars>>
    \/ \E s \in 1..MaxSockets : ClientTransportClose(s) /\ UNCHANGED <<serviceVars, gatewayVars>>

SpecRetry == InitRetry /\ [][NextRetry]_vars

\* ============================================================ properties
\* the sockets other than `created` that are still connecting
Connecting(created) ==
    {s \in SocketIds : s # created /\ sockets[s].readyState = "CONNECTING"}

FromPeer(m) == m.text.form = "object" /\ m.text.sender_id \in Peers

FromSelf(m) == m.text.form = "object" /\ m.text.sender_id = clientID

\* the envelope a listener is to receive for a frame
EnvelopeOf(text) ==
    [event_type |-> text.event_type, data |-> text.data, sender_id |-> text.sender_id]

\* C1: of two connect() calls made one right after the other, the second opens
\* no socket of its own and returns the promise of the first, so that both
\* settle the same way.
C1_ConcurrentConnectsShareOneSocket ==
    [][(lastCall.op = "connect" /\ lastCall'.op = "connect")
       => /\ lastCall'.created = Null
          /\ Len(sockets') = Len(sockets)
          /\ lastCall'.awaits = lastCall.awaits]_vars

\* C2: at most one socket is connecting, at most one socket is connecting or
\* open, and an emit() issued while a connection attempt is pending awaits that
\* attempt and opens no socket.
C2_AtMostOneAttemptInFlight ==
    /\ Cardinality({s \in SocketIds : sockets[s].readyState = "CONNECTING"}) <= 1
    /\ Cardinality({s \in SocketIds : sockets[s].readyState \in {"CONNECTING", "OPEN"}}) <= 1
    /\ (lastCall.op = "emit" /\ Connecting(lastCall.created) # {})
       => lastCall.created = Null /\ lastCall.awaits \in Connecting(Null)

\* C3: connect() called while the connection is open creates no socket, is
\* resolved at once, and leaves the manager connected.
C3_ConnectWhileOpenIsNoOp ==
    (lastCall.op = "connect" /\ lastCall.wasOpen)
    => /\ lastCall.created = Null
       /\ lastCall.awaits = Null
       /\ isConnected

\* C4: in the step in which a connect() promise is resolved, isConnected is
\* true.
C4_ResolvedImpliesConnected ==
    [][\A s \in SocketIds :
          (sockets[s].promise = "pending" /\ sockets'[s].promise = "resolved")
          => isConnected']_vars

\* C5: a frame whose sender_id is the manager's own clientID causes no handler
\* call, whatever is registered, and no handler is ever called with such an
\* envelope.
C5_SelfEchoNeverDelivered ==
    /\ FromSelf(lastMsg) => lastMsg.invoked = <<>>
    /\ \A i \in 1..Len(lastMsg.invoked) : lastMsg.invoked[i].arg.sender_id # clientID

\* C5 witness: a self-sent frame has just arrived on the second connection of
\* the manager while a listener was registered for exactly its event_type.
C5_Witness ==
    /\ FromSelf(lastMsg)
    /\ Registered(lastMsg.text, listeners) # <<>>
    /\ Len(sockets) = 2
    /\ isConnected

\* C6: for a frame from another sender, the handler calls made are exactly the
\* registrations for its event_type, each once, each with the full envelope.
C6_EveryMatchingListenerInvokedOnce ==
    FromPeer(lastMsg)
    => LET m == Registered(lastMsg.text, listeners) IN
       lastMsg.invoked =
          [i \in 1..Len(m) |-> [fn |-> m[i].fn, arg |-> EnvelopeOf(lastMsg.text)]]

\* C7: when a handler throws during the dispatch of a frame, every
\* registration for that event_type is still called.
C7_ThrowingHandlerIsIsolated ==
    (FromPeer(lastMsg) /\ \E i \in 1..Len(lastMsg.invoked) : Throws(lastMsg.invoked[i].fn))
    => Len(lastMsg.invoked) = Len(Registered(lastMsg.text, listeners))

\* C8: a frame that is not JSON calls no handler, lets no exception out of
\* onmessage, logs a diagnostic, and changes neither the connection nor the
\* listener set; the next frame from a peer on that socket still reaches a
\* registered listener.
C8_MalformedFrameDropped ==
    [][ /\ lastMsg'.text.form = "invalid json"
           => /\ lastMsg'.invoked = <<>>
              /\ lastMsg'.logged
              /\ ~lastMsg'.escaped
              /\ UNCHANGED <<ws, connectionPromise, userId, listeners, sockets, pending>>
        /\ (lastMsg.text.form = "invalid json" /\ FromPeer(lastMsg')
               /\ Registered(lastMsg'.text, listeners) # <<>>)
           => lastMsg'.invoked # <<>> ]_vars

\* C8 witness: a frame that is not JSON has just arrived on the open current
\* socket while two listeners were registered.
C8_Witness ==
    /\ lastMsg.text.form = "invalid json"
    /\ lastMsg.logged
    /\ isConnected
    /\ Len(listeners) = 2

\* C9: an emit() issued with no open connection and no attempt in flight opens
\* a socket; an emit() issued while another emit() waits for a socket that is
\* still connecting shares that socket; a frame is sent only after the socket
\* waited for has opened; and every emit() that runs on while the socket it
\* waited for is open sends its frame.
C9_ImplicitConnectThenSend ==
    [][ /\ (lastCall'.op = "emit" /\ ~lastCall'.wasOpen /\ Connecting(Null) = {})
           => lastCall'.created # Null
        /\ \A i \in 1..Len(pending) :
              (lastCall'.op = "emit" /\ pending[i].awaits # Null
                  /\ sockets[pending[i].awaits].readyState = "CONNECTING")
              => lastCall'.created = Null /\ lastCall'.awaits = pending[i].awaits
        /\ (lastEmit'.outcome = "sent" /\ lastEmit'.awaited # Null)
           => sockets[lastEmit'.awaited].promise = "resolved"
        /\ (lastEmit'.outcome # "none" /\ lastEmit'.awaited # Null
               /\ sockets[lastEmit'.awaited].readyState = "OPEN")
           => lastEmit'.outcome = "sent" ]_vars

\* C10: an emit() issued while no user id has ever been given to connect() is
\* rejected at once with a usage error and opens no socket.
C10_EmitWithoutUserFailsFast ==
    (lastCall.op = "emit" /\ lastCall.userBefore = NoUser)
    => /\ lastCall.created = Null
       /\ lastCall.error = "usage error"

\* the entries of a data map other than its userId entry
Rest(d) == {p \in d : p[1] # "userId"}

ErrorOf(s) == sockets[s].promise = "pending" /\ sockets'[s].promise = "rejected"

\* the step is the close event of socket s
CloseOf(s) == ~sockets[s].closeFired /\ sockets'[s].closeFired

\* C12: the error of a connecting socket clears connectionPromise; an emit()
\* that waited for that socket is rejected with the socket's error and sends
\* nothing; connectionPromise never refers to a settled promise, no call
\* returns or waits for a promise that is already settled, and an emit()
\* issued with no open socket and no marker opens a socket of its own.
C12_ErrorRejectsAndClearsMarker ==
    [][ /\ \A s \in SocketIds : ErrorOf(s) => connectionPromise' = Null
        /\ (lastEmit'.outcome # "none" /\ lastEmit'.awaited # Null
               /\ sockets[lastEmit'.awaited].promise = "rejected")
           => (lastEmit'.outcome = "rejected" /\ lastEmit'.error = "socket error")
        /\ connectionPromise' # Null => sockets'[connectionPromise'].promise = "pending"
        /\ (lastCall'.op \in {"connect", "emit"} /\ lastCall'.awaits # Null)
           => sockets'[lastCall'.awaits].promise = "pending"
        /\ (lastCall'.op = "emit" /\ ~isConnected /\ connectionPromise = Null)
           => (lastCall'.created = Len(sockets) + 1
               /\ lastCall'.awaits = lastCall'.created) ]_vars

\* C12 witness: after the first socket failed and whoever waited for it was
\* rejected, an emit() has opened the second socket and waits for it.
C12_Witness ==
    /\ lastCall.op = "emit"
    /\ lastCall.created = 2
    /\ sockets[1].promise = "rejected"
    /\ Len(pending) = 1
    /\ pending[1].awaits = 2
    /\ connectionPromise = 2

C17_DisconnectIdempotent ==
    /\ [](ws # Null => sockets[ws].readyState # "CLOSING")
    /\ [][ disconnect
           => /\ ws' = Null
              /\ connectionPromise' = Null
              /\ \A s \in SocketIds : s # ws => sockets'[s] = sockets[s]
              /\ (ws = Null /\ connectionPromise = Null)
                 => UNCHANGED <<ws, connectionPromise, userId, listeners, sockets, pending>>
              /\ UNCHANGED <<userId, listeners, pending>> ]_vars

\* C17 witness: disconnect() has asked an open socket to close, and nothing is
\* held any more.
C17_Witness ==
    /\ ws = Null
    /\ connectionPromise = Null
    /\ \E s \in SocketIds :
          sockets[s].readyState = "CLOSING" /\ sockets[s].promise = "resolved"

\* C18: a socket is created only in the step of a connect() or emit() call,
\* one per call; the error event and the close event of a socket create none.
C18_NoReconnectByItself ==
    [][ /\ Len(sockets') # Len(sockets)
           => /\ Len(sockets') = Len(sockets) + 1
              /\ lastCall'.op \in {"connect", "emit"}
              /\ lastCall'.created = Len(sockets')
        /\ \A s \in SocketIds :
              (ErrorOf(s) \/ CloseOf(s)) => Len(sockets') = Len(sockets) ]_vars

\* C18 witness: the only socket has failed and its close event has run, and no
\* other socket exists.
C18_Witness ==
    /\ Len(sockets) = 1
    /\ sockets[1].promise = "rejected"
    /\ sockets[1].closeFired
    /\ ws = Null

\* handler f is registered under event e
Has(ls, e, f) == \E i \in 1..Len(ls) : ls[i].event = e /\ ls[i].fn = f

\* C13: a step that changes the listener set changes nothing of the
\* connection and is an addition of one registration or a removal of
\* registrations; and a frame from a peer reaches every listener registered
\* for its event_type, on whichever socket it arrives.
C13_ListenersSurviveReconnects ==
    [][ /\ listeners' # listeners
           => /\ UNCHANGED <<ws, connectionPromise, userId, sockets, pending>>
              /\ lastCall'.op \in {"on", "off"}
        /\ FromPeer(lastMsg')
           => \A i \in 1..Len(listeners) :
                 listeners[i].event = lastMsg'.text.event_type
                 => \E j \in 1..Len(lastMsg'.invoked) :
                       lastMsg'.invoked[j].fn = listeners[i].fn ]_vars

\* C14: off(event, handler) when no registration has both that event and that
\* handler raises nothing and changes neither the listener set nor the
\* connection.
C14_OffUnregisteredIsNoOp ==
    [][ lastCall'.op = "off"
        => \A e \in Events, f \in Fns :
              (off(e, f) /\ ~Has(listeners, e, f))
              => /\ lastCall'.error = "none"
                 /\ lastCall'.removed = 0
                 /\ UNCHANGED <<listeners, ws, connectionPromise, userId, sockets, pending>> ]_vars

\* C14 witness: off() has just run on an open connection and removed nothing,
\* the handler being registered under the other event only.
C14_Witness ==
    /\ lastCall.op = "off"
    /\ lastCall.removed = 0
    /\ listeners = <<[event |-> "typing", fn |-> "h1"]>>
    /\ isConnected

\* C15: off(event, handler) leaves no registration of that handler under that
\* event and keeps every other registration, in order; a registration
\* appears only by on(); and every handler call made for a frame is the call
\* of a handler registered for its event_type at that moment.
C15_OffRemovesExactlyThePair ==
    [][ /\ lastCall'.op = "off"
           => \A e \in Events, f \in Fns :
                 off(e, f)
                 => /\ ~Has(listeners', e, f)
                    /\ listeners' = SelectSeq(listeners, LAMBDA l : l.event # e \/ l.fn # f)
        /\ (listeners' # listeners /\ lastCall'.op # "on")
           => \A e \in Events, f \in Fns : Has(listeners', e, f) => Has(listeners, e, f)
        /\ \A j \in 1..Len(lastMsg'.invoked) :
              Has(listeners, lastMsg'.text.event_type, lastMsg'.invoked[j].fn) ]_vars

\* C15 witness: off() has just removed one registration on an open connection
\* and kept the registration of the same handler under the other event.
C15_Witness ==
    /\ lastCall.op = "off"
    /\ lastCall.removed = 1
    /\ listeners = <<[event |-> "message_create", fn |-> "h1"]>>
    /\ isConnected

\* the StreamClient emitted event ev in the step just taken
Emitted(step, ev) == \E j \in 1..Len(step.emitted) : step.emitted[j] = ev

\* C19: the construction of a StreamClient with autoConnect has the manager
\* create a socket, and throws nothing that is then ignored.
C19_AutoConnectOpensSocket ==
    (lastClient.op = "constructor" /\ client.autoConnect)
    => /\ lastClient.socket # Null
       /\ lastClient.threw = "none"
       /\ Len(sockets) = 1

\* C20: with autoConnect, every rejected connect() takes one from
\* maxReconnectAttempts and, while the result is positive, schedules one timer
\* and does not emit 'maxReconnectAttemptsReached'; otherwise it emits it and
\* schedules nothing.  The counter never grows and a timer is scheduled only
\* by a rejection that leaves it positive.  When every attempt fails, an
\* attempt under way leads to 'maxReconnectAttemptsReached'.
C20_RetryUntilExhausted ==
    /\ [][ /\ (lastClient'.op = "rejected" /\ client.autoConnect)
              => /\ client'.maxReconnectAttempts = client.maxReconnectAttempts - 1
                 /\ IF client'.maxReconnectAttempts > 0
                    THEN /\ lastClient'.scheduled = 1
                         /\ client'.timers = client.timers + 1
                         /\ ~Emitted(lastClient', "maxReconnectAttemptsReached")
                    ELSE /\ lastClient'.scheduled = 0
                         /\ client'.timers = client.timers
                         /\ Emitted(lastClient', "maxReconnectAttemptsReached")
           /\ client.constructed
              => client'.maxReconnectAttempts <= client.maxReconnectAttempts
           /\ client'.timers > client.timers
              => (lastClient'.op = "rejected" /\ client'.maxReconnectAttempts > 0) ]_vars
    /\ (client.autoConnect /\ client.waiting # <<>>)
          ~> Emitted(lastClient, "maxReconnectAttemptsReached")

\* C20 witness: the second attempt, started by the timer, has failed, the
\* counter is at zero, 'maxReconnectAttemptsReached' has just been emitted and
\* no timer is left.
C20_Witness ==
    /\ lastClient.op = "rejected"
    /\ lastClient.socket = 2
    /\ Emitted(lastClient, "maxReconnectAttemptsReached")
    /\ client.autoConnect
    /\ client.maxReconnectAttempts = 0
    /\ client.timers = 0
    /\ client.waiting = <<>>

\* ----------------------------------------------------------------- C21
\* the entity and the kind of mutation a service method stands for
EntityOf(m) ==
    CASE m \in {"createMessage", "updateMessage", "deleteMessage"} -> "message"
      [] m \in {"createUser", "updateUser", "deleteUser"} -> "user"
      [] m \in {"uploadFile", "uploadChannelFile", "deleteFile"} -> "file"

KindOf(m) ==
    CASE m \in {"createMessage", "createUser"} -> "create"
      [] m \in {"uploadFile", "uploadChannelFile"} -> "upload"
      [] m \in {"updateMessage", "updateUser"} -> "update"
      [] m \in Deletes -> "delete"

\* C21 as stated: a mutation whose HTTP write succeeded returns the entity
\* (nothing, for a delete), so a mutation that settles after its emit never
\* settles by rejecting.
C21_SuccessfulWriteReturnsEntity ==
    lastService.step = "emitted" => lastService.outcome = "returned"

\* C21, amended: a mutation whose HTTP write succeeds calls emit exactly once in
\* the step that handles the response and in no other step, with event
\* '<entity>_<kind>' and the entity of the response as payload (for a delete
\* the marker {id}, which deleteMessage extends with channelId); it sends no
\* second request; it returns the entity (nothing, for a delete) when that emit
\* resolves and rejects with the emit's error when that emit rejects; with no
\* manager it returns at once without any emit.
C21_MutationEmitsOnceAfterWrite ==
    LET l == lastService
        m == l.method
    IN l.method \in Mutations =>
         /\ l.step = "call" => l.emits = <<>> /\ l.outcome = "none"
         /\ l.step = "response" /\ l.response # <<>> /\ l.pulse =>
              /\ Len(l.emits) = 1
              /\ l.emits[1].event = EntityOf(m) \o "_" \o KindOf(m)
              /\ l.emits[1].data =
                   IF m \in Deletes
                   THEN {<<"id", l.id>>} \cup
                        (IF m = "deleteMessage" THEN {<<"channelId", channelId>>} ELSE {})
                   ELSE l.response[1]
              /\ l.outcome = "none"
              /\ l.requests = 0
              /\ lastCall.op = "emit"
         /\ l.step = "response" /\ l.response # <<>> /\ ~l.pulse =>
              /\ l.emits = <<>>
              /\ lastCall.op = "none"
              /\ l.outcome = "returned"
              /\ l.value = (IF m \in Deletes THEN <<>> ELSE l.response)
         /\ l.step = "emitted" =>
              /\ l.pulse
              /\ l.emits = <<>>
              /\ l.requests = 0
              /\ lastEmit.outcome # "none"
              /\ lastEmit.frame.event_type \in {"", EntityOf(m) \o "_" \o KindOf(m)}
              /\ l.outcome = (IF lastEmit.outcome = "rejected" THEN "rejected" ELSE "returned")
              /\ l.outcome = "rejected" => l.error = lastEmit.error /\ l.value = <<>>
              /\ l.outcome = "returned" /\ m \in Deletes => l.value = <<>>
              /\ l.outcome = "returned" /\ m \notin Deletes =>
                   /\ Len(l.value) = 1
                   /\ l.value[1] \in Entities
                   /\ Rest(lastEmit.frame.data) = Rest(l.value[1])

\* createMessage on a service with a manager has returned the created entity
\* after its emit was sent
C21_Witness ==
    /\ lastService.method = "createMessage"
    /\ lastService.step = "emitted"
    /\ lastService.outcome = "returned"
    /\ lastService.value # <<>>
    /\ lastEmit.outcome = "sent"

\* ----------------------------------------------------------------- C23
\* C23: when the HTTP write of a create, update or delete fails, the method
\* rejects in that step with the error of the request, calls neither emit nor
\* connect (the manager is left as it was), sends no further request, and the
\* call is over.
C23_FailedWriteRejectsWithoutEmit ==
    [][ (lastService'.step = "response" /\ lastService'.failed # ""
            /\ lastService'.method \in Mutations)
        => /\ lastService'.outcome = "rejected"
           /\ lastService'.error = lastService'.failed
           /\ lastService'.emits = <<>>
           /\ lastService'.requests = 0
           /\ lastCall' = NoCall
           /\ Len(calls') = Len(calls) - 1
           /\ \A c \in {calls'[k] : k \in 1..Len(calls')} :
                 \E k \in 1..Len(calls) : calls[k] = c
           /\ UNCHANGED <<ws, connectionPromise, userId, sockets, pending, listeners>>
      ]_vars

\* updateMessage on a service with a manager was rejected with the 500 of its
\* request
C23_Witness ==
    /\ lastService.method = "updateMessage"
    /\ lastService.pulse
    /\ lastService.step = "response"
    /\ lastService.failed = "500"
    /\ lastService.outcome = "rejected"

\* ----------------------------------------------------------------- C22
\* C22 as stated: a successful createChannel / updateChannel / deleteChannel
\* calls emit exactly once, with 'channel_create' / 'channel_update' and the
\* channel of the response, or 'channel_delete' and {id}.
C22_ChannelMutationEmits ==
    LET l == lastService
    IN (l.method \in ChannelMutations /\ l.step = "response" /\ l.response # <<>>)
       => /\ Len(l.emits) = 1
          /\ l.emits[1].event =
               (CASE l.method = "createChannel" -> "channel_create"
                  [] l.method = "updateChannel" -> "channel_update"
                  [] l.method = "deleteChannel" -> "channel_delete")
          /\ l.emits[1].data =
               (IF l.method = "deleteChannel" THEN {<<"id", l.id>>} ELSE l.response[1])

\* ----------------------------------------------------------------- C25
\* C25: a participant operation called while the selection is null or the
\* empty string is rejected at once with the usage error; the step sends no
\* HTTP request, makes no emit or connect call, starts no call and leaves the
\* manager as it was.
C25_NoChannelFailsBeforeAnyRequest ==
    [][ (lastService'.method \in ParticipantMethods /\ lastService'.step = "call"
            /\ channelID \in {"null", ""})
        => /\ lastService'.outcome = "rejected"
           /\ lastService'.error =
                "Channel ID is not set. Please connect to a channel first."
           /\ lastService'.requests = 0
           /\ lastService'.emits = <<>>
           /\ lastCall' = NoCall
           /\ UNCHANGED <<calls, channelID, ws, connectionPromise, userId, sockets,
                          pending, listeners>>
      ]_vars

\* removeParticipant on a service with a manager was rejected with the usage
\* error after connect('')
C25_Witness ==
    /\ channelID = ""
    /\ lastService.method = "removeParticipant"
    /\ lastService.pulse
    /\ lastService.step = "call"
    /\ lastService.outcome = "rejected"
    /\ lastService.error = UsageError

\* ----------------------------------------------------------------- C26
\* C26: ChannelService.connect(channelId) makes channelId the selection whatever
\* it was before, returns, sends no HTTP request, makes no emit or connect call
\* and leaves the calls in flight and the manager as they were; no other step
\* changes the selection.
C26_ConnectOnlySelects ==
    [][ /\ lastService'.method = "connect"
           => /\ channelID' = lastService'.id
              /\ lastService'.outcome = "returned"
              /\ lastService'.requests = 0
              /\ lastService'.emits = <<>>
              /\ lastCall' = NoCall
              /\ UNCHANGED <<calls, ws, connectionPromise, userId, sockets, pending,
                             listeners>>
        /\ lastService'.method # "connect" => channelID' = channelID
      ]_vars

\* connect('') has replaced the selection under which a participant call, still
\* in flight, was admitted
C26_Witness ==
    /\ lastService.method = "connect"
    /\ lastService.id = ""
    /\ channelID = ""
    /\ \E k \in 1..Len(calls) : calls[k].method \in ParticipantMethods

\* ----------------------------------------------------------------- C24
\* C24: no step of a read operation (its call, its successful or its failed
\* response), on a service with or without manager, calls emit or connect, and
\* each leaves this.ws, the pending-attempt marker, the user id, the sockets,
\* the emits in flight and the listener registry as they were.
C24_QueriesLeaveManagerAlone ==
    [][ lastService'.method \in Queries \cup ChannelQueries \cup {"getParticipants"}
        => /\ lastService'.emits = <<>>
           /\ lastCall' = NoCall
           /\ lastEmit' = NoEmit
           /\ UNCHANGED <<ws, connectionPromise, userId, sockets, pending, listeners>>
           /\ isConnected' = isConnected
      ]_vars

\* getMessages on a service whose manager is connected and has listeners has
\* returned
C24_Witness ==
    /\ lastService.method = "getMessages"
    /\ lastService.pulse
    /\ lastService.step = "response"
    /\ lastService.outcome = "returned"
    /\ isConnected
    /\ listeners # <<>>

\* ----------------------------------------------------------------- C30
\* the segments of a text between its '.' characters
Segments(t) ==
    LET dots == {k \in 1..Len(t) : t[k] = 46}
        n == Cardinality(dots)
        dot(i) == IF i = 0 THEN 0
                  ELSE IF i > n THEN Len(t) + 1
                  ELSE CHOOSE k \in dots : Cardinality({j \in dots : j < k}) = i - 1
    IN [i \in 1..(n + 1) |-> SubSeq(t, dot(i - 1) + 1, dot(i) - 1)]

HasHttpScheme(u) ==
    \/ Len(u) >= 7 /\ SubSeq(u, 1, 7) = <<104, 116, 116, 112, 58, 47, 47>>
    \/ Len(u) >= 8 /\ SubSeq(u, 1, 8) = <<104, 116, 116, 112, 115, 58, 47, 47>>

\* C28: getWebSocketFromHttpUrl maps "http://" + rest to "ws://" + rest and
\* "https://" + rest to "wss://" + rest, and rejects every other input with
\* 'Invalid HTTP URL'; with such a base no PulseService and no StreamClient
\* comes into being, the constructor fails with that error, and no socket is
\* ever opened.
C28_HttpBaseMapsToWebSocketBase ==
    LET u == fn.args.httpUrl IN
    /\ fn.applied =>
          IF Len(u) >= 7 /\ SubSeq(u, 1, 7) = <<104, 116, 116, 112, 58, 47, 47>>
          THEN /\ ~fn.result.threw
               /\ fn.result.text = <<119, 115, 58, 47, 47>> \o SubSeq(u, 8, Len(u))
          ELSE IF Len(u) >= 8 /\ SubSeq(u, 1, 8) = <<104, 116, 116, 112, 115, 58, 47, 47>>
          THEN /\ ~fn.result.threw
               /\ fn.result.text = <<119, 115, 115, 58, 47, 47>> \o SubSeq(u, 9, Len(u))
          ELSE /\ fn.result.threw
               /\ fn.result.error = "Invalid HTTP URL"
    /\ ~HasHttpScheme(u) =>
          /\ ~manager.constructed
          /\ manager.error \in {"", "Invalid HTTP URL"}
          /\ ~client.constructed
          /\ lastClient.op = "constructor" => lastClient.threw = "Invalid HTTP URL"
          /\ sockets = <<>>
    /\ manager.constructed => manager.uri[1] = getWebSocketFromHttpUrl(u).text

\* "HTTP://" + rest was rejected by the function and by a StreamClient
\* constructor, and no socket exists
C28_Witness ==
    /\ fn.applied
    /\ fn.result.threw
    /\ Len(fn.args.httpUrl) > 7
    /\ SubSeq(fn.args.httpUrl, 1, 7) = <<72, 84, 84, 80, 58, 47, 47>>
    /\ manager.error = "Invalid HTTP URL"
    /\ lastClient.op = "constructor"
    /\ sockets = <<>>

C29_IdentityFixedAtConstruction ==
    [][ /\ manager' = manager
        /\ manager.constructed
        /\ manager.uri[3] = manager.clientID
        /\ manager.uri[5] = manager.token
        /\ \A s \in 1..Len(sockets') : sockets'[s].url = manager.uri
        /\ lastEmit'.outcome = "sent" => lastEmit'.frame.sender_id = manager.clientID
        /\ lastMsg'.text.form = "object" =>
              IF lastMsg'.text.sender_id = manager.clientID
              THEN lastMsg'.invoked = <<>>
              ELSE Len(lastMsg'.invoked) = Len(Registered(lastMsg'.text, listeners))
      ]_vars

\* socket 1 is closed, socket 2 was created after it with the same URI, and
\* an envelope has just been sent
C29_Witness ==
    /\ Len(sockets) >= 2
    /\ sockets[1].readyState = "CLOSED"
    /\ sockets[2].url = sockets[1].url
    /\ sockets[2].url = manager.uri
    /\ lastEmit.outcome = "sent"
    /\ lastEmit.frame.sender_id = manager.clientID

\* C31: the close event of a socket that is no longer the one the manager
\* holds (the manager has since created another) leaves the reference to the
\* newer socket and the in-flight marker of the newer attempt as they are.
C31_LateCloseLeavesNewerConnection ==
    [][ \A s \in 1..Len(sockets) :
           (~sockets[s].closeFired /\ sockets'[s].closeFired /\ ws # Null /\ ws # s)
              => /\ ws' = ws
                 /\ connectionPromise' = connectionPromise ]_vars

\* the emit() calls waiting for the promise of socket s
Awaiting(q, s) == {i \in 1..Len(q) : q[i].awaits = s}

\* C32: the promise of a connect() is settled only in the step of the open
\* event (resolved) or of the error event (rejected) of its own socket; the
\* close event settles nothing.  A socket whose close event has been
\* delivered while its promise was pending keeps that promise pending in
\* every later step, and no emit() waiting for it ever resumes.
C32_OnlyOpenOrErrorSettles ==
    [][ \A s \in 1..Len(sockets) :
           /\ (sockets[s].promise = "pending" /\ sockets'[s].promise # "pending")
                 => /\ sockets'[s].closeFired = sockets[s].closeFired
                    /\ \/ /\ sockets[s].readyState = "CONNECTING"
                          /\ sockets'[s].readyState = "OPEN"
                          /\ sockets'[s].promise = "resolved"
                       \/ /\ sockets[s].readyState # "CLOSED"
                          /\ sockets'[s].readyState = "CLOSED"
                          /\ sockets'[s].promise = "rejected"
           /\ (sockets[s].promise = "pending" /\ sockets[s].closeFired)
                 => /\ sockets'[s].promise = "pending"
                    /\ sockets'[s].closeFired
                    /\ Cardinality(Awaiting(pending', s)) >= Cardinality(Awaiting(pending, s))
      ]_vars

\* socket 1, created by an emit(), was closed by disconnect() while connecting;
\* its close event has been delivered, its promise is pending and the emit()
\* still waits for it
C32_Witness ==
    /\ Len(sockets) >= 1
    /\ sockets[1].closeFired
    /\ sockets[1].promise = "pending"
    /\ Awaiting(pending, 1) # {}
    /\ ws = Null

\* the registrations of handler f under event e
Registrations(ls, e, f) == {i \in 1..Len(ls) : ls[i].event = e /\ ls[i].fn = f}

\* C33: every on(event, handler) adds one registration, also when the pair is
\* registered already; an envelope from a peer invokes a handler once per
\* registration of it under the envelope's event_type; and off(event, handler)
\* leaves no registration of the pair, however many there were.
C33_EveryRegistrationIsInvoked ==
    [][ /\ lastCall'.op = "on" => Len(listeners') = Len(listeners) + 1
        /\ FromPeer(lastMsg')
           => \A f \in Fns :
                 Cardinality({j \in 1..Len(lastMsg'.invoked) : lastMsg'.invoked[j].fn = f})
                    = Cardinality(Registrations(listeners, lastMsg'.text.event_type, f))
        /\ lastCall'.op = "off"
           => \A e \in Events, f \in Fns :
                 off(e, f) => /\ Registrations(listeners', e, f) = {}
                              /\ lastCall'.removed
                                    = Cardinality(Registrations(listeners, e, f)) ]_vars

\* C34: off(eventType, handler) removes no registration made through onEvent
\* or a StreamClient.onXxx, whichever handler it is given, and where the
\* handler has no registration of its own it leaves the registry as it is; so
\* an envelope of a peer still reaches the function registered for the handler,
\* as every registration that the dispatch arrives at.
C34_OffCannotRemoveWrappedHandler ==
    [][ /\ lastCall'.op = "off"
           => \A e \in Events, h \in Fns :
                 off(e, h)
                 => /\ \A e2 \in Events, h2 \in Fns :
                          Cardinality(Registrations(listeners', e2, Wrap(h2)))
                             = Cardinality(Registrations(listeners, e2, Wrap(h2)))
                    /\ ~Has(listeners, e, h) => listeners' = listeners
                    /\ \A text \in Frames :
                          Has(Registered(text, listeners), text.event_type, Wrap(h))
                             => Has(Registered(text, listeners'), text.event_type, Wrap(h))
        /\ FromPeer(lastMsg')
           => LET matching == Registered(lastMsg'.text, listeners)
              IN \A k \in 1..Len(matching) :
                    (\A j \in 1..(k - 1) : ~Throws(matching[j].fn))
                       => /\ k <= Len(lastMsg'.invoked)
                          /\ lastMsg'.invoked[k].fn = matching[k].fn ]_vars

\* off() has just run, has removed the direct registration of h1 under
\* 'message_create' and has left the function registered for h1 by onEvent
C34_Witness ==
    /\ lastCall.op = "off"
    /\ lastCall.removed = 1
    /\ listeners = <<[event |-> "message_create", fn |-> Wrap("h1")]>>
    /\ isConnected

\* the failures the counter has been lowered for
Failures == fn.args.maxReconnectAttempts - client.maxReconnectAttempts

\* max(1, maxReconnectAttempts) of the options
Attempts == IF fn.args.maxReconnectAttempts > 1 THEN fn.args.maxReconnectAttempts ELSE 1

\* no connect() of the manager has resolved
AllFailing == \A s \in SocketIds : sockets[s].promise # "resolved"

\* (as stated) whatever the options, a failing connect() made when the counter
\* is at or below zero emits 'maxReconnectAttemptsReached' and schedules
\* nothing, and an all-failing run with nothing left under way has made
\* max(1, maxReconnectAttempts) attempts
C35_AttemptsReachConfiguredMaximum ==
    /\ [][ (lastClient'.op = "rejected" /\ client.maxReconnectAttempts <= 0)
              => /\ Emitted(lastClient', "maxReconnectAttemptsReached")
                 /\ lastClient'.scheduled = 0 ]_vars
    /\ []((AllFailing /\ sockets # <<>> /\ client.waiting = <<>> /\ client.timers = 0)
             => Len(sockets) >= Attempts)

\* C35: the counter never grows, and a resolved connect() leaves it as it is.
\* With autoConnect every failed attempt lowers it by one and a retry is
\* scheduled only by a failure that leaves it positive, so that at most
\* max(0, maxReconnectAttempts - 1) retries are ever scheduled; a run in which
\* every attempt fails goes on (one attempt or one timer under way) until
\* max(1, maxReconnectAttempts) attempts have failed and then stops with no
\* timer left; and every failure at a counter at or below zero emits
\* 'maxReconnectAttemptsReached' and schedules nothing.  Without autoConnect
\* the counter never changes, nothing is scheduled and
\* 'maxReconnectAttemptsReached' is never emitted.
C35_CounterNeverGrows ==
    /\ [][ client.constructed
           => /\ client'.maxReconnectAttempts <= client.maxReconnectAttempts
              /\ lastClient'.op = "resolved"
                    => client'.maxReconnectAttempts = client.maxReconnectAttempts
              /\ lastClient'.scheduled = 1
                    => /\ client.autoConnect
                       /\ lastClient'.op = "rejected"
                       /\ client'.maxReconnectAttempts = client.maxReconnectAttempts - 1
                       /\ client'.maxReconnectAttempts > 0
              /\ (lastClient'.op = "rejected" /\ client.autoConnect
                     /\ client.maxReconnectAttempts <= 0)
                    => /\ Emitted(lastClient', "maxReconnectAttemptsReached")
                       /\ lastClient'.scheduled = 0
                       /\ client'.timers = client.timers
              /\ (lastClient'.op = "rejected" /\ ~client.autoConnect)
                    => /\ client'.maxReconnectAttempts = client.maxReconnectAttempts
                       /\ lastClient'.scheduled = 0
                       /\ ~Emitted(lastClient', "maxReconnectAttemptsReached") ]_vars
    /\ [](client.constructed
             => /\ client.autoConnect = fn.args.autoConnect
                /\ ~client.autoConnect => (Failures = 0 /\ client.timers = 0)
                /\ (client.autoConnect /\ AllFailing /\ sockets # <<>>)
                      => /\ Len(sockets) = Failures + Len(client.waiting)
                         /\ Failures < Attempts
                               => /\ Len(client.waiting) + client.timers = 1
                                  /\ Len(sockets) - 1 + client.timers <= Attempts - 1
                         /\ Failures >= Attempts => client.timers = 0)

\* with maxReconnectAttempts: 1 and autoConnect the first attempt has used the
\* counter up; a second connect() has failed too, the counter is below zero,
\* 'maxReconnectAttemptsReached' has been emitted again and no timer is set
C35_Witness ==
    /\ client.autoConnect
    /\ fn.args.maxReconnectAttempts = 1
    /\ client.maxReconnectAttempts = 0 - 1
    /\ Len(sockets) = 2
    /\ lastClient.op = "rejected"
    /\ Emitted(lastClient, "maxReconnectAttemptsReached")
    /\ client.timers = 0

\* C36: after StreamClient.disconnect() has returned, a retry scheduled by an
\* earlier failed attempt does not reconnect the client: the timer's callback
\* running next opens no socket.  disconnect() leaves the timer of
\* setTimeout(() => this.connect(), ...) pending, so the callback calls
\* connect() and a new socket is opened.
C36_NoReconnectAfterDisconnect ==
    [][(lastClient.op = "disconnect" /\ lastClient'.op = "timer")
          => Len(sockets') = Len(sockets)]_vars

\* C37: in every reachable state of a StreamClient, isReady being true implies
\* that pulse.isConnected is true.  isReady is cleared only by
\* StreamClient.disconnect() and by the catch block of connect(); the close
\* event of the socket clears this.ws in the manager and tells the
\* StreamClient nothing.
C37_ReadyImpliesConnected == client.isReady => isConnected

\* C38: when the HTTP write of a mutation has succeeded and the emit that
\* followed it rejects, the method rejects in the step in which the emit
\* settles, with the error of the emit, and returns no entity; the call is
\* over (the other calls go on as they were), and neither a request that would
\* undo the write nor a second emit is sent.
C38_RejectedEmitRejectsMethod ==
    [][lastEmit'.outcome = "rejected" =>
         /\ lastService'.step = "emitted"
         /\ lastService'.method \in Mutations
         /\ lastService'.outcome = "rejected"
         /\ lastService'.error = lastEmit'.error
         /\ lastService'.error # ""
         /\ lastService'.value = <<>>
         /\ lastService'.requests = 0
         /\ lastService'.emits = <<>>
         /\ Len(calls') = Len(calls) - 1
         /\ LET Others(cs) == [j \in 1..Len(cs) |-> [cs[j] EXCEPT !.waits = 0]]
            IN \E k \in 1..Len(calls) :
                 /\ calls[k].phase = "emit"
                 /\ calls[k].method = lastService'.method
                 /\ Others(calls') = Others(Remove(calls, k))]_vars

\* deleteFile on a service with a manager was answered 2xx, its emit was
\* rejected, and the method has rejected with the error of the emit
C38_Witness ==
    /\ lastService.method = "deleteFile"
    /\ lastService.step = "emitted"
    /\ lastService.outcome = "rejected"
    /\ lastEmit.outcome = "rejected"
    /\ lastService.error = lastEmit.error

====
